---- MODULE Spec2Model ----
(***************************************************************************)
(* Model of the BGL::Graph / BGL::Vertex native extension of roby          *)
(* (ext/roby_bgl/graph.cc, ext/roby_bgl/graph.hh, ext/bgl.cc).             *)
(*                                                                         *)
(* A graph is a boost::adjacency_list<setS, setS, bidirectionalS, VALUE,   *)
(* EdgeProperty>: its vertex descriptors are heap addresses, each holding  *)
(* the Ruby object it stands for, and its edges are (source, target)       *)
(* descriptor pairs carrying an info object.  Every Ruby vertex object     *)
(* holds, in the instance variable @__bgl_graphs__, a std::map from graph  *)
(* to its descriptor in that graph.  The module also models the           *)
(* undirected view of a graph (ext/roby_bgl/undirected_graph.hh) and the   *)
(* ValueSet class (ext/value_set/value_set.cc), a std::set<VALUE>.         *)
(***************************************************************************)
EXTENDS Integers, FiniteSets, Sequences, TLC

\* ---------------------------------------------------------------- bounds
NumGraphs == 2
NumValues == 2
NumPayloads == 2
NumHandles == 2
MaxEdges == 2
\* the traversals run on graphs of NumDfsVertices vertices and at most
\* MaxDfsEdges edges, with a visitor that calls prune at most MaxPrunes times
NumDfsVertices == 3
MaxDfsEdges == 4
MaxPrunes == 1
\* the breadth-first searches run on graphs of at most MaxBfsEdges edges
MaxBfsEdges == 3
\* a block starts searches of its own on graphs of at most MaxNestedEdges
\* edges, at most MaxNesting searches deep
MaxNestedEdges == 3
MaxNesting == 1
\* the components are computed on graphs of at most MaxComponentEdges edges,
\* for at most MaxSeeds seeds
MaxComponentEdges == 4
MaxSeeds == 2
\* the ValueSet objects are NumSets sets of values among NumSetValues
NumSets == 2
NumSetValues == 3

Graphs == 1..NumGraphs
Values == 1..NumValues
Payloads == 1..NumPayloads
\* vertex descriptors are non-null heap addresses; every graph allocates its
\* vertices in an arena of its own, so that descriptor h of graph g stands
\* for the address <<g, h>>
Handles == 1..NumHandles
\* static_cast<void*>(0): the descriptor rb_to_vertex returns with "false"
NullDescriptor == 0

VARIABLES vertices, edges, ivar_graph_map, graph_map, last

\* the thread-local "@prune" and the traversal in progress: where it is, its
\* arguments, its color map and stack, the callbacks made so far, and (for
\* the statements below) the edges examined so far with the color their
\* target had, the number of prune calls the visitor made and the value
\* "@prune" had when the traversal started
VARIABLES prune, pc, root, mode, colors, stack, trace, examined, vprunes, prune_at_start

\* which traversal it is (each_dfs or each_bfs) and on which view of the
\* graph, the queue of a breadth-first search, the positions in "examined"
\* of the callbacks that called prune, the traversals suspended in a
\* callback that started another one, and whether the innermost traversal
\* has just been returned to by the traversal its callback started
VARIABLES kind, view, queue, pruned_at, outer, resumed

\* the ValueSet objects: the elements of the std::set each of them wraps
VARIABLES value_sets

StoreVars == <<vertices, edges, ivar_graph_map, graph_map, value_sets>>

TraversalVars ==
    <<prune, pc, root, mode, colors, stack, trace, examined, vprunes, prune_at_start,
      kind, view, queue, pruned_at, outer, resumed>>

vars == <<StoreVars, last, TraversalVars>>

\* ------------------------------------------------------- small helpers
EmptyMap == [x \in {} |-> 0]

MapPut(m, k, v) == [x \in DOMAIN m \cup {k} |-> IF x = k THEN v ELSE m[x]]

MapErase(m, k) == [x \in DOMAIN m \ {k} |-> m[x]]

\* The store as one value: the vertex list and edge list of every graph,
\* and the @__bgl_graphs__ map of every vertex object.
State == [vertices |-> vertices, edges |-> edges,
          ivar_graph_map |-> ivar_graph_map, graph_map |-> graph_map]

\* ------------------------------------------------------ BGL primitives
\* addresses the allocator can return: not the address of a live vertex
FreeHandles(s, g) == Handles \ DOMAIN s.vertices[g]

\* add_vertex(vertex, graph), the allocator returning address h
add_vertex(s, g, vertex, h) ==
    [s EXCEPT !.vertices[g] = MapPut(@, h, vertex)]

\* edge(s, t, graph).second
edge(s, g, src, tgt) == \E e \in s.edges[g] : e.source = src /\ e.target = tgt

\* graph[edge(s, t, graph).first].info
edge_info(s, g, src, tgt) ==
    (CHOOSE e \in s.edges[g] : e.source = src /\ e.target = tgt).info

\* add_edge storing the new info in the edge that is already there
add_edge_overwrite(s, g, src, tgt, info) ==
    IF edge(s, g, src, tgt)
    THEN [state |-> [s EXCEPT !.edges[g] =
                        {IF e.source = src /\ e.target = tgt
                         THEN [e EXCEPT !.info = info] ELSE e : e \in @}],
          inserted |-> FALSE]
    ELSE [state |-> [s EXCEPT !.edges[g] =
                        @ \cup {[source |-> src, target |-> tgt, info |-> info]}],
          inserted |-> TRUE]

\* add_edge(s, t, EdgeProperty(info), graph): the out-edge list is a set
\* keyed by the target, an edge that is already there is left as it is
add_edge(s, g, src, tgt, info) ==
    IF edge(s, g, src, tgt)
    THEN [state |-> s, inserted |-> FALSE]
    ELSE [state |-> [s EXCEPT !.edges[g] =
                        @ \cup {[source |-> src, target |-> tgt, info |-> info]}],
          inserted |-> TRUE]

\* remove_edge dropping the reverse edge as well
remove_edge_both(s, g, src, tgt) ==
    [s EXCEPT !.edges[g] = {e \in @ : ~(e.source = src /\ e.target = tgt)
                                      /\ ~(e.source = tgt /\ e.target = src)}]

\* remove_edge(s, t, graph)
remove_edge(s, g, src, tgt) ==
    [s EXCEPT !.edges[g] = {e \in @ : ~(e.source = src /\ e.target = tgt)}]

\* clear_vertex dropping the out-edges only (clear_out_edges)
clear_vertex_out_only(s, g, v) ==
    [s EXCEPT !.edges[g] = {e \in @ : e.source # v}]

\* clear_vertex(v, graph): drops every in-edge and out-edge of v
clear_vertex(s, g, v) ==
    [s EXCEPT !.edges[g] = {e \in @ : e.source # v /\ e.target # v}]

\* remove_vertex(v, graph)
remove_vertex(s, g, v) ==
    [s EXCEPT !.vertices[g] = MapErase(@, v)]

\* ------------------------------------------------------- BGL::Vertex
\* vertex_descriptor_map(self, create): the map, created when asked to
vertex_descriptor_map(s, vertex, create) ==
    IF s.ivar_graph_map[vertex] \/ ~create
    THEN s
    ELSE [s EXCEPT !.ivar_graph_map[vertex] = TRUE,
                   !.graph_map[vertex] = EmptyMap]

\* rb_to_vertex(vertex, graph): <<descriptor, exists>>
rb_to_vertex(s, vertex, g) ==
    IF ~s.ivar_graph_map[vertex]
    THEN <<NullDescriptor, FALSE>>
    ELSE IF g \notin DOMAIN s.graph_map[vertex]
         THEN <<NullDescriptor, FALSE>>
         ELSE <<s.graph_map[vertex][g], TRUE>>

\* -------------------------------------------------------- BGL::Graph
graph_include_p(s, g, vertex) == rb_to_vertex(s, vertex, g)[2]

graph_size(s, g) == Cardinality(DOMAIN s.vertices[g])

graph_empty_p(s, g) == DOMAIN s.vertices[g] = {}

\* graph.vertices
graph_vertices(s, g) == {s.vertices[g][h] : h \in DOMAIN s.vertices[g]}

graph_linked_p(s, g, source, target) ==
    LET sv == rb_to_vertex(s, source, g)
        tv == rb_to_vertex(s, target, g)
    IN  IF ~sv[2] THEN FALSE
        ELSE IF ~tv[2] THEN FALSE
        ELSE edge(s, g, sv[1], tv[1])

\* graph_insert adding a vertex without looking for an entry in the map
graph_insert_always(s, g, vertex, h) ==
    LET s1 == vertex_descriptor_map(s, vertex, TRUE)
        s2 == add_vertex(s1, g, vertex, h)
    IN  [s2 EXCEPT !.graph_map[vertex] = MapPut(@, g, h)]

\* graph_insert(self, vertex), add_vertex returning address h
graph_insert(s, g, vertex, h) ==
    LET s1 == vertex_descriptor_map(s, vertex, TRUE)
    IN  IF g \in DOMAIN s1.graph_map[vertex]
        THEN s1
        ELSE LET s2 == add_vertex(s1, g, vertex, h)
             IN  [s2 EXCEPT !.graph_map[vertex] = MapPut(@, g, h)]

\* graph_remove leaving the entry of the graph in the vertex's map
graph_remove_no_erase(s, g, vertex) ==
    IF ~s.ivar_graph_map[vertex] THEN s
    ELSE IF g \notin DOMAIN s.graph_map[vertex] THEN s
    ELSE LET d  == s.graph_map[vertex][g]
             s1 == clear_vertex(s, g, d)
         IN  remove_vertex(s1, g, d)

\* graph_remove emptying the vertex's map (clear() for erase(it))
graph_remove_all_graphs(s, g, vertex) ==
    IF ~s.ivar_graph_map[vertex] THEN s
    ELSE IF g \notin DOMAIN s.graph_map[vertex] THEN s
    ELSE LET d  == s.graph_map[vertex][g]
             s1 == clear_vertex(s, g, d)
             s2 == remove_vertex(s1, g, d)
         IN  [s2 EXCEPT !.graph_map[vertex] = EmptyMap]

\* graph_remove(self, vertex)
graph_remove(s, g, vertex) ==
    IF ~s.ivar_graph_map[vertex] THEN s
    ELSE IF g \notin DOMAIN s.graph_map[vertex] THEN s
    ELSE LET d  == s.graph_map[vertex][g]
             s1 == clear_vertex(s, g, d)
             s2 == remove_vertex(s1, g, d)
         IN  [s2 EXCEPT !.graph_map[vertex] = MapErase(@, g)]

\* graph_clear(self) dereferences the map of every vertex of the graph and
\* erases the iterator find(self) returns: undefined when there is no map
\* or no entry
graph_clear_defined(s, g) ==
    \A h \in DOMAIN s.vertices[g] :
        LET value == s.vertices[g][h]
        IN  s.ivar_graph_map[value] /\ g \in DOMAIN s.graph_map[value]

\* graph_clear without the loop that erases the map entries
graph_clear_store_only(s, g) ==
    [s EXCEPT !.vertices[g] = EmptyMap, !.edges[g] = {}]

graph_clear(s, g) ==
    LET members == graph_vertices(s, g)
    IN  [s EXCEPT !.graph_map = [v \in Values |->
                        IF v \in members THEN MapErase(@[v], g) ELSE @[v]],
                  !.vertices[g] = EmptyMap,
                  !.edges[g] = {}]

\* graph_ensure_inserted_vertex(self, vertex): <<state, descriptor>>
graph_ensure_inserted_vertex(s, g, vertex, h) ==
    IF rb_to_vertex(s, vertex, g)[2]
    THEN [state |-> s, v |-> rb_to_vertex(s, vertex, g)[1]]
    ELSE LET s1 == graph_insert(s, g, vertex, h)
         IN  [state |-> s1, v |-> rb_to_vertex(s1, vertex, g)[1]]

\* graph_link adding the edge from the target to the source
graph_link_swapped(s, g, source, target, info, hs, ht) ==
    LET es == graph_ensure_inserted_vertex(s, g, source, hs)
        et == graph_ensure_inserted_vertex(es.state, g, target, ht)
        ae == add_edge(et.state, g, et.v, es.v, info)
    IN  IF ~ae.inserted
        THEN [state |-> ae.state, res |-> "edge already exists"]
        ELSE [state |-> ae.state, res |-> "ok"]

\* graph_link(self, source, target, info), the allocator returning hs, ht
graph_link(s, g, source, target, info, hs, ht) ==
    LET es == graph_ensure_inserted_vertex(s, g, source, hs)
        et == graph_ensure_inserted_vertex(es.state, g, target, ht)
        ae == add_edge(et.state, g, es.v, et.v, info)
    IN  IF ~ae.inserted
        THEN [state |-> ae.state, res |-> "edge already exists"]
        ELSE [state |-> ae.state, res |-> "ok"]

\* graph_unlink(self, source, target)
graph_unlink(s, g, source, target) ==
    LET sv == rb_to_vertex(s, source, g)
        tv == rb_to_vertex(s, target, g)
    IN  IF ~sv[2] THEN s
        ELSE IF ~tv[2] THEN s
        ELSE IF edge(s, g, sv[1], tv[1])
             THEN remove_edge(s, g, sv[1], tv[1])
             ELSE s

\* vertex_get_info(self, child, rb_graph): the error raised or "ok" and the
\* info returned
vertex_get_info(s, self, child, g) ==
    LET sv == rb_to_vertex(s, self, g)
        tv == rb_to_vertex(s, child, g)
    IN  IF ~sv[2] THEN [res |-> "self is not in graph", value |-> 0]
        ELSE IF ~tv[2] THEN [res |-> "child is not in graph", value |-> 0]
        ELSE IF ~edge(s, g, sv[1], tv[1])
             THEN [res |-> "no such edge in graph", value |-> 0]
             ELSE [res |-> "ok", value |-> edge_info(s, g, sv[1], tv[1])]

\* vertex_set_info writing the info of every out-edge of self
vertex_set_info_all_out(s, self, child, g, new_value) ==
    LET sv == rb_to_vertex(s, self, g)
        tv == rb_to_vertex(s, child, g)
    IN  IF ~sv[2] THEN [state |-> s, res |-> "self is not in graph", value |-> 0]
        ELSE IF ~tv[2]
             THEN [state |-> s, res |-> "child is not in graph", value |-> 0]
        ELSE IF ~edge(s, g, sv[1], tv[1])
             THEN [state |-> s, res |-> "no such edge in graph", value |-> 0]
        ELSE [state |-> [s EXCEPT !.edges[g] =
                  {IF e.source = sv[1]
                   THEN [e EXCEPT !.info = new_value] ELSE e : e \in @}],
              res |-> "ok", value |-> new_value]

\* vertex_set_info(self, child, rb_graph, new_value)
vertex_set_info(s, self, child, g, new_value) ==
    LET sv == rb_to_vertex(s, self, g)
        tv == rb_to_vertex(s, child, g)
    IN  IF ~sv[2] THEN [state |-> s, res |-> "self is not in graph", value |-> 0]
        ELSE IF ~tv[2]
             THEN [state |-> s, res |-> "child is not in graph", value |-> 0]
        ELSE IF ~edge(s, g, sv[1], tv[1])
             THEN [state |-> s, res |-> "no such edge in graph", value |-> 0]
        ELSE [state |-> [s EXCEPT !.edges[g] =
                  {IF e.source = sv[1] /\ e.target = tv[1]
                   THEN [e EXCEPT !.info = new_value] ELSE e : e \in @}],
              res |-> "ok", value |-> new_value]

\* graph_each_edge(self): the (source, target, info) triples it yields
graph_each_edge(s, g) ==
    {<<s.vertices[g][e.source], s.vertices[g][e.target], e.info>> : e \in s.edges[g]}

\* ------------------------------------------------------------ actions
\* the number of edges of the graphs gs, which MaxEdges bounds
RECURSIVE EdgeCount(_)
EdgeCount(gs) ==
    IF gs = {} THEN 0
    ELSE LET g == CHOOSE x \in gs : TRUE
         IN  Cardinality(edges[g]) + EdgeCount(gs \ {g})

Commit(s) ==
    /\ vertices' = s.vertices
    /\ edges' = s.edges
    /\ ivar_graph_map' = s.ivar_graph_map
    /\ graph_map' = s.graph_map
    /\ UNCHANGED value_sets
    /\ UNCHANGED TraversalVars

\* the addresses the allocator can return for a new vertex of g (none is
\* asked for when the vertex is already in g)
AllocChoices(s, g, vertex) ==
    IF graph_include_p(s, g, vertex) THEN {NullDescriptor} ELSE FreeHandles(s, g)

\* what the caller sees of the last call: the method, what include? or
\* linked? (for clear: not empty?) answered just before it, the error it
\* raised or "ok", and the info a read returned
Call(op, was, res, value) == [op |-> op, was |-> was, res |-> res, value |-> value]

Insert(g, v) ==
    \E h \in AllocChoices(State, g, v) :
        /\ Commit(graph_insert(State, g, v, h))
        /\ last' = Call("insert", graph_include_p(State, g, v), "ok", 0)

Remove(g, v) ==
    /\ Commit(graph_remove(State, g, v))
    /\ last' = Call("remove", graph_include_p(State, g, v), "ok", 0)

Clear(g) ==
    /\ Commit(graph_clear(State, g))
    /\ last' = Call("clear", ~graph_empty_p(State, g),
                    IF graph_clear_defined(State, g) THEN "ok" ELSE "undefined", 0)

Link(g, a, b, info) ==
    \E hs \in AllocChoices(State, g, a) :
      \E ht \in AllocChoices(graph_ensure_inserted_vertex(State, g, a, hs).state, g, b) :
        /\ graph_linked_p(State, g, a, b) \/ EdgeCount(Graphs) < MaxEdges
        /\ LET r == graph_link(State, g, a, b, info, hs, ht)
           IN  /\ Commit(r.state)
               /\ last' = Call("link", graph_linked_p(State, g, a, b), r.res, 0)

Unlink(g, a, b) ==
    /\ Commit(graph_unlink(State, g, a, b))
    /\ last' = Call("unlink", graph_linked_p(State, g, a, b), "ok", 0)

GetInfo(g, a, b) ==
    LET r == vertex_get_info(State, a, b, g)
    IN  /\ UNCHANGED <<StoreVars, TraversalVars>>
        /\ last' = Call("get_info", graph_linked_p(State, g, a, b), r.res, r.value)

SetInfo(g, a, b, info) ==
    LET r == vertex_set_info(State, a, b, g, info)
    IN  /\ Commit(r.state)
        /\ last' = Call("set_info", graph_linked_p(State, g, a, b), r.res, 0)

\* no traversal has run and "@prune" was never set
\* no ValueSet object has been made
NoValueSet == value_sets = EmptyMap

NoTraversal ==
    /\ prune = FALSE
    /\ pc = "idle"
    /\ root = 0
    /\ mode = 0
    /\ colors = EmptyMap
    /\ stack = <<>>
    /\ trace = <<>>
    /\ examined = <<>>
    /\ vprunes = 0
    /\ prune_at_start = FALSE
    /\ kind = "none"
    /\ view = "none"
    /\ queue = <<>>
    /\ pruned_at = <<>>
    /\ outer = <<>>
    /\ resumed = FALSE

Init ==
    /\ vertices = [g \in Graphs |-> EmptyMap]
    /\ edges = [g \in Graphs |-> {}]
    /\ ivar_graph_map = [v \in Values |-> FALSE]
    /\ graph_map = [v \in Values |-> EmptyMap]
    /\ last = Call("new", FALSE, "ok", 0)
    /\ NoTraversal
    /\ NoValueSet

Next ==
    \/ \E g \in Graphs, v \in Values : Insert(g, v)
    \/ \E g \in Graphs, v \in Values : Remove(g, v)
    \/ \E g \in Graphs : Clear(g)
    \/ \E g \in Graphs, a \in Values, b \in Values, info \in Payloads : Link(g, a, b, info)
    \/ \E g \in Graphs, a \in Values, b \in Values : Unlink(g, a, b)
    \/ \E g \in Graphs, a \in Values, b \in Values : GetInfo(g, a, b)
    \/ \E g \in Graphs, a \in Values, b \in Values, info \in Payloads : SetInfo(g, a, b, info)

Spec == Init /\ [][Next]_vars

\* ------------------------------------------------------------- claims
\* the descriptors of g whose payload is v
HandlesOf(g, v) == {h \in DOMAIN vertices[g] : vertices[g][h] = v}

\* C1: for every vertex value v and graph g, v's membership index has an
\* entry for g exactly when g's vertex list holds one descriptor whose
\* payload is v, the entry is that descriptor, and no value is stored twice
\* in one graph.
C1_IndexMatchesStore ==
    \A g \in Graphs, v \in Values :
        /\ Cardinality(HandlesOf(g, v)) <= 1
        /\ graph_include_p(State, g, v) <=> HandlesOf(g, v) # {}
        /\ graph_include_p(State, g, v) => rb_to_vertex(State, v, g)[1] \in HandlesOf(g, v)
        /\ ~ivar_graph_map[v] => graph_map[v] = EmptyMap

\* a vertex has just been removed from one graph while a value is a vertex
\* of both graphs and edges remain
C1_Witness ==
    /\ last.op = "remove" /\ last.was
    /\ \E v \in Values : \A g \in Graphs : graph_include_p(State, g, v)
    /\ \E v \in Values, g \in Graphs : ivar_graph_map[v] /\ ~graph_include_p(State, g, v)
    /\ \E g \in Graphs : edges[g] # {}

\* C2: link on an edge that already exists raises "edge already exists" and
\* changes nothing: vertex lists, edges, infos and membership indices are
\* what they were.
C2_DuplicateLinkFailsUnchanged ==
    [][\A g \in Graphs, a \in Values, b \in Values, info \in Payloads :
          (last'.op = "link" /\ graph_linked_p(State, g, a, b) /\ Link(g, a, b, info))
              => (last'.res = "edge already exists" /\ UNCHANGED StoreVars)]_vars

\* a duplicate link has been refused in a graph holding an edge
C2_Witness ==
    /\ last.op = "link" /\ last.res = "edge already exists"
    /\ \E g \in Graphs : edges[g] # {}

\* C3: after remove(g, v), v is not in g, v's index has no entry for g, no
\* edge of g touches v and the edges of g that did not touch v are there
\* with their info; every edge of a graph has both endpoints in the graph;
\* remove of a value that is not in g changes nothing.
C3_EdgesHaveEndpoints ==
    \A g \in Graphs : \A e \in edges[g] :
        e.source \in DOMAIN vertices[g] /\ e.target \in DOMAIN vertices[g]

C3_RemovePost(g, v) ==
    /\ ~graph_include_p(State', g, v)
    /\ g \notin DOMAIN graph_map'[v]
    /\ v \notin graph_vertices(State', g)
    /\ graph_each_edge(State', g) =
          {t \in graph_each_edge(State, g) : t[1] # v /\ t[2] # v}
    /\ graph_vertices(State', g) = graph_vertices(State, g) \ {v}
    /\ ~graph_include_p(State, g, v) => UNCHANGED StoreVars

C3_RemoveDetaches ==
    /\ []C3_EdgesHaveEndpoints
    /\ [][\A g \in Graphs, v \in Values :
             (last'.op = "remove" /\ Remove(g, v)) => C3_RemovePost(g, v)]_vars

\* a vertex has been removed from a graph that keeps an edge
C3_Witness ==
    /\ last.op = "remove" /\ last.was
    /\ \E g \in Graphs : edges[g] # {} /\ Cardinality(DOMAIN vertices[g]) < NumValues

\* C4: link(g, a, b, info) on a pair that is not linked succeeds, whether a
\* and b were in g or not (a = b included): afterwards both are in g, a->b
\* is there with info, and every other edge, b->a included, is as before.
C4_LinkPost(g, a, b, info) ==
    /\ last'.res = "ok"
    /\ graph_include_p(State', g, a) /\ graph_include_p(State', g, b)
    /\ graph_linked_p(State', g, a, b)
    /\ vertex_get_info(State', a, b, g) = [res |-> "ok", value |-> info]
    /\ a # b => (graph_linked_p(State', g, b, a) <=> graph_linked_p(State, g, b, a))
    /\ graph_each_edge(State', g) = graph_each_edge(State, g) \cup {<<a, b, info>>}
    /\ graph_vertices(State', g) = graph_vertices(State, g) \cup {a, b}

C4_LinkInsertsEdge ==
    [][\A g \in Graphs, a \in Values, b \in Values, info \in Payloads :
          (last'.op = "link" /\ ~graph_linked_p(State, g, a, b) /\ Link(g, a, b, info))
              => C4_LinkPost(g, a, b, info)]_vars

\* a link has succeeded and its graph holds a self-loop and another edge
C4_Witness ==
    /\ last.op = "link" /\ last.res = "ok" /\ ~last.was
    /\ \E g \in Graphs : \E e1, e2 \in edges[g] :
          e1.source = e1.target /\ e2.source # e2.target

\* C5: after insert(g, v), v is in g; insert of a value that is already in
\* g leaves the size of g, the descriptor recorded for v and the edges of g
\* as they were.
C5_InsertPost(g, v) ==
    /\ graph_include_p(State', g, v)
    /\ v \in graph_vertices(State', g)
    /\ graph_include_p(State, g, v) =>
          /\ graph_size(State', g) = graph_size(State, g)
          /\ rb_to_vertex(State', v, g) = rb_to_vertex(State, v, g)
          /\ graph_each_edge(State', g) = graph_each_edge(State, g)
    /\ ~graph_include_p(State, g, v) =>
          /\ graph_size(State', g) = graph_size(State, g) + 1
          /\ graph_each_edge(State', g) = graph_each_edge(State, g)

C5_InsertIdempotent ==
    [][\A g \in Graphs, v \in Values :
          (last'.op = "insert" /\ Insert(g, v)) => C5_InsertPost(g, v)]_vars

\* a value that was in the graph has been inserted again, the graph has edges
C5_Witness ==
    /\ last.op = "insert" /\ last.was
    /\ \E g \in Graphs : edges[g] # {}

\* C6: unlink never raises; it changes nothing when a or b is not in g or
\* a->b is not there (it inserts nothing); when the edge is there, it
\* removes that edge and nothing else: a and b stay in g, every other edge,
\* b->a included, keeps its info.
C6_UnlinkPost(g, a, b) ==
    /\ last'.res = "ok"
    /\ ~graph_linked_p(State, g, a, b) => UNCHANGED StoreVars
    /\ graph_linked_p(State, g, a, b) =>
          /\ ~graph_linked_p(State', g, a, b)
          /\ graph_each_edge(State', g) =
                {t \in graph_each_edge(State, g) : ~(t[1] = a /\ t[2] = b)}
          /\ vertices' = vertices
          /\ graph_map' = graph_map
          /\ \A h \in Graphs \ {g} : edges'[h] = edges[h]

C6_UnlinkRemovesOneEdge ==
    [][\A g \in Graphs, a \in Values, b \in Values :
          (last'.op = "unlink" /\ Unlink(g, a, b)) => C6_UnlinkPost(g, a, b)]_vars

\* an edge has been unlinked and the reverse edge is still in the graph
C6_Witness ==
    /\ last.op = "unlink" /\ last.was
    /\ \E g \in Graphs, a \in Values, b \in Values :
          /\ a # b
          /\ graph_linked_p(State, g, b, a)
          /\ ~graph_linked_p(State, g, a, b)

\* C7: after clear(g), g has no vertex and no edge and no vertex value has
\* an entry for g in its membership index.
C7_ClearPost(g) ==
    /\ last'.res = "ok"
    /\ graph_empty_p(State', g)
    /\ graph_size(State', g) = 0
    /\ edges'[g] = {}
    /\ \A v \in Values : ~graph_include_p(State', g, v) /\ g \notin DOMAIN graph_map'[v]

C7_ClearEmpties ==
    [][\A g \in Graphs : (last'.op = "clear" /\ Clear(g)) => C7_ClearPost(g)]_vars

\* a graph that held vertices has been cleared
C7_Witness ==
    /\ last.op = "clear" /\ last.was
    /\ \E g \in Graphs : graph_empty_p(State, g)

\* C8: insert, remove, link, unlink and clear on g leave the vertex list,
\* the edges and infos of every other graph h, and every value's entry for
\* h, as they were.
C8_Mutates(g) ==
    \/ last'.op = "insert" /\ \E v \in Values : Insert(g, v)
    \/ last'.op = "remove" /\ \E v \in Values : Remove(g, v)
    \/ last'.op = "clear" /\ Clear(g)
    \/ last'.op = "unlink" /\ \E a \in Values, b \in Values : Unlink(g, a, b)
    \/ last'.op = "link" /\
          \E a \in Values, b \in Values, info \in Payloads : Link(g, a, b, info)

C8_Untouched(h) ==
    /\ vertices'[h] = vertices[h]
    /\ edges'[h] = edges[h]
    /\ \A v \in Values : rb_to_vertex(State', v, h) = rb_to_vertex(State, v, h)

C8_GraphsIndependent ==
    [][\A g \in Graphs, h \in Graphs :
          (g # h /\ C8_Mutates(g)) => C8_Untouched(h)]_vars

\* a graph has been cleared while the other one holds an edge between two
\* values
C8_Witness ==
    /\ last.op = "clear" /\ last.was
    /\ \E g \in Graphs, h \in Graphs :
          /\ graph_empty_p(State, g)
          /\ \E a \in Values, b \in Values : a # b /\ graph_linked_p(State, h, a, b)

\* C9: reading and writing the info of self->child raise when self is not
\* in the graph, when child is not, and when there is no such edge, and then
\* change nothing; when the edge is there, the read returns its info and
\* the write replaces the info of that edge only.
C9_Error(g, a, b) ==
    IF ~graph_include_p(State, g, a) THEN "self is not in graph"
    ELSE IF ~graph_include_p(State, g, b) THEN "child is not in graph"
    ELSE IF ~graph_linked_p(State, g, a, b) THEN "no such edge in graph"
    ELSE "ok"

C9_GetPost(g, a, b) ==
    /\ last'.res = C9_Error(g, a, b)
    /\ UNCHANGED StoreVars
    /\ graph_linked_p(State, g, a, b) => <<a, b, last'.value>> \in graph_each_edge(State, g)

C9_SetPost(g, a, b, info) ==
    /\ last'.res = C9_Error(g, a, b)
    /\ ~graph_linked_p(State, g, a, b) => UNCHANGED StoreVars
    /\ graph_linked_p(State, g, a, b) =>
          /\ graph_each_edge(State', g) =
                {t \in graph_each_edge(State, g) : ~(t[1] = a /\ t[2] = b)}
                    \cup {<<a, b, info>>}
          /\ vertices' = vertices
          /\ graph_map' = graph_map
          /\ \A h \in Graphs \ {g} : edges'[h] = edges[h]

C9_InfoAccess ==
    [][/\ \A g \in Graphs, a \in Values, b \in Values :
             (last'.op = "get_info" /\ GetInfo(g, a, b)) => C9_GetPost(g, a, b)
       /\ \A g \in Graphs, a \in Values, b \in Values, info \in Payloads :
             (last'.op = "set_info" /\ SetInfo(g, a, b, info))
                 => C9_SetPost(g, a, b, info)]_vars

\* a read has returned the info of an edge of a graph that holds a second
\* edge with another info
C9_Witness ==
    /\ last.op = "get_info" /\ last.res = "ok"
    /\ \E g \in Graphs : \E e1, e2 \in edges[g] :
          e1.info = last.value /\ e2.info # last.value

\* ================================================== traversals (bgl.cc)
\* The graph traversed is graph 1 of the store.  Its vertex descriptors are
\* 1..NumDfsVertices, descriptor h holding the vertex object ValueOfHandle(h);
\* the object NumDfsVertices + 1 is a vertex of no graph.
DfsGraph == 1
DfsHandles == 1..NumDfsVertices
DfsValues == 1..(NumDfsVertices + 1)
ValueOfHandle(h) == NumDfsVertices + 1 - h
InfoOf(src, tgt) == ((src + 2 * tgt) % NumPayloads) + 1

VISIT_TREE_EDGES == 1
VISIT_BACK_EDGES == 2
VISIT_FORWARD_OR_CROSS_EDGES == 4
VISIT_NON_TREE_EDGES == 6
VISIT_ALL_EDGES == 7

\* a & b on the three bits of an edge-class mask
BitAnd(a, b) ==
    LET bit(x, i) == (x \div i) % 2
    IN  bit(a, 1) * bit(b, 1) + 2 * bit(a, 2) * bit(b, 2) + 4 * bit(a, 4) * bit(b, 4)

\* the elements of a set of descriptors in increasing order
RECURSIVE SortedSeq(_)
SortedSeq(S) ==
    IF S = {} THEN <<>>
    ELSE LET m == CHOOSE x \in S : \A y \in S : x <= y
         IN  <<m>> \o SortedSeq(S \ {m})

\* out_edges(u, graph): the out-edge list of u is a std::set ordered by the
\* target descriptor
out_edges(s, g, u) ==
    LET targets == {e.target : e \in {x \in s.edges[g] : x.source = u}}
        order   == SortedSeq(targets)
    IN  [i \in 1..Len(order) |->
            CHOOSE e \in s.edges[g] : e.source = u /\ e.target = order[i]]

\* in_edges(u, graph): the in-edge list of u is a std::set ordered by the
\* source descriptor
in_edges(s, g, u) ==
    LET sources == {e.source : e \in {x \in s.edges[g] : x.target = u}}
        order   == SortedSeq(sources)
    IN  [i \in 1..Len(order) |->
            CHOOSE e \in s.edges[g] : e.target = u /\ e.source = order[i]]

\* a view that gives an in-edge with the endpoints it is stored with
not_swapped(e) == e

\* the edge e as the views give it: source(e, view), target(e, view) and
\* view[e]; a reverse_graph and the in-edges of an undirected_graph swap the
\* endpoints
swapped(e) == [source |-> e.target, target |-> e.source, info |-> e.info]

\* a view that shows the out-edges of the graph itself whatever it is
view_out_edges_direct_only(s, g, vw, u) == out_edges(s, g, u)

\* out_edges(u, view): the out-edges of the graph itself, the in-edges for a
\* boost::reverse_graph, the in-edges followed by the out-edges for a
\* utilmm::undirected_graph
view_out_edges(s, g, vw, u) ==
    LET out == out_edges(s, g, u)
        in  == [i \in 1..Len(in_edges(s, g, u)) |-> swapped(in_edges(s, g, u)[i])]
    IN  IF vw = "direct" THEN out
        ELSE IF vw = "reverse" THEN in
        ELSE in \o out

\* get(colors, v): operator[] of the std::map gives an absent key the value
\* default_color_type(), which is white
color_get(cm, v) == IF v \in DOMAIN cm THEN cm[v] ELSE "white"

\* a color map shared by all the searches
shared_colors(cm) == cm

\* "map<vertex_descriptor, default_color_type> colors": each call of
\* graph_each_dfs and graph_each_bfs has a color map of its own, empty when
\* the search starts
new_colors(cm) == EmptyMap

\* the edge class depth_first_visit gives an examined edge, from the color
\* of its target
dfs_edge_class(v_color) ==
    IF v_color = "white" THEN VISIT_TREE_EDGES
    ELSE IF v_color = "gray" THEN VISIT_BACK_EDGES
    ELSE VISIT_FORWARD_OR_CROSS_EDGES

\* yield_edge without the test of the mask
yield_edge_unfiltered(what, m_mode) == TRUE

\* ruby_dfs_visitor::yield_edge: is the block called for an edge of class what
yield_edge(what, m_mode) == BitAnd(what, m_mode) # 0

\* the arguments the block is called with
yield_values(s, g, e, what) ==
    <<s.vertices[g][e.source], s.vertices[g][e.target], e.info, what>>

\* search_terminator: the value of "@prune", which it resets when set
search_terminator(flag) == [result |-> flag, prune |-> FALSE]

\* dfs_discover with a terminator that never stops the search
dfs_discover_unpruned(s, g, vw, u, terminated) == [u |-> u, ei |-> 1]

\* the stack entry of a vertex that has just been discovered: its out-edge
\* range, empty when the terminator stops the search there
dfs_discover(s, g, vw, u, terminated) ==
    [u |-> u, ei |-> IF terminated THEN Len(view_out_edges(s, g, vw, u)) + 1 ELSE 1]

\* vertex_descriptor_map of bgl.cc: the "@__bgl_graphs__" map of the object,
\* which it creates, empty, when the object has none
bgl_vertex_descriptor_map(s, vertex) ==
    [s EXCEPT !.ivar_graph_map[vertex] = TRUE]

\* rb_to_vertex of bgl.cc: the descriptor of the object in the graph, and
\* the store after the look-up
bgl_rb_to_vertex(s, vertex, g) ==
    LET after == bgl_vertex_descriptor_map(s, vertex)
        descriptors == after.graph_map[vertex]
    IN  IF g \notin DOMAIN descriptors
        THEN [state |-> after, v |-> NullDescriptor, exists |-> FALSE]
        ELSE [state |-> after, v |-> descriptors[g], exists |-> TRUE]

\* no Ruby call is running
AtTopLevel == pc = "idle" /\ outer = <<>>

\* the search called from the top level has returned, or raised: its color
\* map, stack and queue are gone; only "@prune" and the store outlive it
EachReturn ==
    /\ pc \in {"done", "error"}
    /\ outer = <<>>
    /\ pc' = "idle"
    /\ root' = 0
    /\ mode' = 0
    /\ colors' = EmptyMap
    /\ stack' = <<>>
    /\ trace' = <<>>
    /\ examined' = <<>>
    /\ vprunes' = 0
    /\ prune_at_start' = FALSE
    /\ kind' = "none"
    /\ view' = "none"
    /\ queue' = <<>>
    /\ pruned_at' = <<>>
    /\ resumed' = FALSE
    /\ UNCHANGED <<StoreVars, last, prune, outer>>

\* graph.prune, called outside of a traversal
GraphPrune ==
    /\ AtTopLevel
    /\ prune' = TRUE
    /\ UNCHANGED <<StoreVars, last, pc, root, mode, colors, stack, trace, examined,
                   vprunes, prune_at_start, kind, view, queue, pruned_at, outer,
                   resumed>>

\* graph_each_dfs up to the first edge, with the head of depth_first_visit:
\* the search of the view vw from the object r with the mask m
graph_each_dfs(vw, r, m) ==
    /\ kind' = "dfs"
    /\ view' = vw
    /\ root' = r
    /\ mode' = m
    /\ trace' = <<>>
    /\ examined' = <<>>
    /\ vprunes' = 0
    /\ pruned_at' = <<>>
    /\ prune_at_start' = prune
    /\ queue' = <<>>
    /\ resumed' = FALSE
    /\ LET found == bgl_rb_to_vertex(State, r, DfsGraph)
           t == search_terminator(prune)
       IN  /\ ivar_graph_map' = found.state.ivar_graph_map
           /\ IF ~found.exists
              THEN /\ pc' = "done"
                   /\ colors' = EmptyMap
                   /\ stack' = <<>>
                   /\ prune' = prune
              ELSE /\ pc' = "run"
                   /\ colors' = MapPut(new_colors(colors), found.v, "gray")
                   /\ stack' = <<dfs_discover(State, DfsGraph, vw, found.v, t.result)>>
                   /\ prune' = t.prune
    /\ UNCHANGED <<vertices, edges, graph_map, value_sets, last>>

\* graph.each_dfs(r, m) and graph.reverse_each_dfs(r, m)
EachDfs(vw, r, m) ==
    /\ AtTopLevel
    /\ graph_each_dfs(vw, r, m)
    /\ UNCHANGED outer

\* one turn of the edge loop of depth_first_visit: the edge is examined and
\* classified, the block is called if the mode asks for the class (callsPrune:
\* the block calls graph.prune), and a white target is discovered.  When the
\* block started a traversal of its own the turn resumes after the block.
DfsExamineEdge(callsPrune) ==
    /\ pc = "run"
    /\ kind = "dfs"
    /\ LET top     == stack[Len(stack)]
           out     == view_out_edges(State, DfsGraph, view, top.u)
       IN  /\ top.ei <= Len(out)
           /\ LET e       == out[top.ei]
                  v_color == color_get(colors, e.target)
                  what    == dfs_edge_class(v_color)
                  yielded == yield_edge(what, mode)
                  flag    == IF callsPrune THEN TRUE ELSE prune
                  t       == search_terminator(flag)
                  rest    == [stack EXCEPT ![Len(stack)].ei = top.ei + 1]
              IN  /\ callsPrune => (yielded /\ ~resumed /\ vprunes < MaxPrunes)
                  /\ vprunes' = IF callsPrune THEN vprunes + 1 ELSE vprunes
                  /\ examined' = IF resumed THEN examined
                                 ELSE Append(examined, <<e.source, e.target, v_color>>)
                  /\ pruned_at' = IF callsPrune THEN Append(pruned_at, Len(examined'))
                                  ELSE pruned_at
                  /\ trace' = IF yielded /\ ~resumed
                              THEN Append(trace, yield_values(State, DfsGraph, e, what))
                              ELSE trace
                  /\ IF v_color = "white"
                     THEN /\ colors' = MapPut(colors, e.target, "gray")
                          /\ stack' = Append(rest,
                                 dfs_discover(State, DfsGraph, view, e.target, t.result))
                          /\ prune' = t.prune
                     ELSE /\ colors' = colors
                          /\ stack' = rest
                          /\ prune' = flag
    /\ resumed' = FALSE
    /\ UNCHANGED <<StoreVars, last, pc, root, mode, prune_at_start, kind, view, queue,
                   outer>>

\* the end of the edge loop: the vertex is finished, each_dfs returns when
\* the stack is empty
DfsFinishVertex ==
    /\ pc = "run"
    /\ kind = "dfs"
    /\ LET top == stack[Len(stack)]
       IN  /\ top.ei > Len(view_out_edges(State, DfsGraph, view, top.u))
           /\ colors' = MapPut(colors, top.u, "black")
           /\ stack' = SubSeq(stack, 1, Len(stack) - 1)
           /\ pc' = IF Len(stack) = 1 THEN "done" ELSE "run"
    /\ UNCHANGED <<StoreVars, last, prune, root, mode, trace, examined, vprunes,
                   prune_at_start, kind, view, queue, pruned_at, outer, resumed>>

\* the graphs traversed: every set of at most MaxDfsEdges edges between the
\* NumDfsVertices vertices
DfsEdgeSets ==
    {E \in SUBSET (DfsHandles \X DfsHandles) : Cardinality(E) <= MaxDfsEdges}

\* the store holding the edges E in graph DfsGraph
DfsStore(E) ==
    /\ edges = [g \in Graphs |->
                   IF g = DfsGraph
                   THEN {[source |-> p[1], target |-> p[2],
                          info |-> InfoOf(p[1], p[2])] : p \in E}
                   ELSE {}]
    /\ vertices = [g \in Graphs |->
                      IF g = DfsGraph THEN [h \in DfsHandles |-> ValueOfHandle(h)]
                      ELSE EmptyMap]
    /\ ivar_graph_map = [v \in DfsValues |-> v <= NumDfsVertices]
    /\ graph_map = [v \in DfsValues |->
                      IF v <= NumDfsVertices
                      THEN MapPut(EmptyMap, DfsGraph, ValueOfHandle(v))
                      ELSE EmptyMap]
    /\ last = Call("new", FALSE, "ok", 0)

InitDfs ==
    /\ \E E \in DfsEdgeSets : DfsStore(E)
    /\ NoTraversal
    /\ NoValueSet

\* the masks: every subset of TREE, BACK and FORWARD_OR_CROSS
DfsModes == 0..VISIT_ALL_EDGES

DfsViews == {"direct", "reverse"}

NextDfs ==
    \/ GraphPrune
    \/ \E vw \in DfsViews, r \in DfsValues, m \in DfsModes : EachDfs(vw, r, m)
    \/ \E callsPrune \in BOOLEAN : DfsExamineEdge(callsPrune)
    \/ DfsFinishVertex
    \/ EachReturn

SpecDfs == InitDfs /\ [][NextDfs]_vars

\* ----------------------------------------------------- breadth-first
\* the test graph_each_bfs makes of its mask: exactly one of BACK and
\* FORWARD_OR_CROSS is asked for
bfs_mode_error_any_non_tree(intmode) == BitAnd(intmode, VISIT_NON_TREE_EDGES) # 0

bfs_mode_error(intmode) ==
    /\ BitAnd(intmode, VISIT_NON_TREE_EDGES) # 0
    /\ BitAnd(intmode, VISIT_NON_TREE_EDGES) # VISIT_NON_TREE_EDGES

\* the class breadth_first_visit gives an examined edge: tree_edge for a
\* white target, non_tree_edge otherwise
bfs_edge_class(v_color) ==
    IF v_color = "white" THEN VISIT_TREE_EDGES ELSE VISIT_NON_TREE_EDGES

\* breadth_first_search puts every vertex of the graph to white
bfs_initialize(s, g, cm) == [v \in DOMAIN s.vertices[g] |-> "white"]

\* graph_each_bfs up to the first edge, with the head of
\* breadth_first_search: the root is discovered, queued, and taken from the
\* queue
graph_each_bfs(vw, r, m) ==
    /\ kind' = "bfs"
    /\ view' = vw
    /\ root' = r
    /\ mode' = m
    /\ trace' = <<>>
    /\ examined' = <<>>
    /\ vprunes' = 0
    /\ pruned_at' = <<>>
    /\ prune_at_start' = prune
    /\ queue' = <<>>
    /\ resumed' = FALSE
    /\ prune' = prune
    /\ IF bfs_mode_error(m)
       THEN /\ pc' = "error"
            /\ colors' = EmptyMap
            /\ stack' = <<>>
            /\ UNCHANGED ivar_graph_map
       ELSE LET found == bgl_rb_to_vertex(State, r, DfsGraph)
            IN  /\ ivar_graph_map' = found.state.ivar_graph_map
                /\ IF ~found.exists
                   THEN /\ pc' = "done"
                        /\ colors' = EmptyMap
                        /\ stack' = <<>>
                   ELSE /\ pc' = "run"
                        /\ colors' = MapPut(bfs_initialize(State, DfsGraph,
                                                new_colors(colors)), found.v, "gray")
                        /\ stack' = <<[u |-> found.v, ei |-> 1]>>
    /\ UNCHANGED <<vertices, edges, graph_map, value_sets, last>>

\* graph.each_bfs, graph.reverse_each_bfs and graph.undirected_each_bfs
EachBfs(vw, r, m) ==
    /\ AtTopLevel
    /\ graph_each_bfs(vw, r, m)
    /\ UNCHANGED outer

\* one turn of the edge loop of breadth_first_visit: the edge is classified,
\* the block is called if the mode asks for the class (callsPrune: the block
\* calls graph.prune), and a white target is discovered and queued
BfsExamineEdge(callsPrune) ==
    /\ pc = "run"
    /\ kind = "bfs"
    /\ LET top     == stack[1]
           out     == view_out_edges(State, DfsGraph, view, top.u)
       IN  /\ top.ei <= Len(out)
           /\ LET e       == out[top.ei]
                  v_color == color_get(colors, e.target)
                  what    == bfs_edge_class(v_color)
                  yielded == yield_edge(what, mode)
              IN  /\ callsPrune => (yielded /\ ~resumed /\ vprunes < MaxPrunes)
                  /\ vprunes' = IF callsPrune THEN vprunes + 1 ELSE vprunes
                  /\ prune' = IF callsPrune THEN TRUE ELSE prune
                  /\ examined' = IF resumed THEN examined
                                 ELSE Append(examined, <<e.source, e.target, v_color>>)
                  /\ pruned_at' = IF callsPrune THEN Append(pruned_at, Len(examined'))
                                  ELSE pruned_at
                  /\ trace' = IF yielded /\ ~resumed
                              THEN Append(trace, yield_values(State, DfsGraph, e, what))
                              ELSE trace
                  /\ stack' = <<[top EXCEPT !.ei = top.ei + 1]>>
                  /\ IF v_color = "white"
                     THEN /\ colors' = MapPut(colors, e.target, "gray")
                          /\ queue' = Append(queue, e.target)
                     ELSE /\ colors' = colors
                          /\ queue' = queue
    /\ resumed' = FALSE
    /\ UNCHANGED <<StoreVars, last, pc, root, mode, prune_at_start, kind, view, outer>>

\* a Queue whose top() is the element pushed last
Queue_top_back(q) == q[Len(q)]

\* Queue<T>: top() is front() of the std::queue, pop() removes the front
Queue_top(q) == Head(q)

Queue_pop(q) == Tail(q)

\* the end of the edge loop: the vertex is finished and the next one is
\* taken from the queue; each_bfs returns when the queue is empty
BfsFinishVertex ==
    /\ pc = "run"
    /\ kind = "bfs"
    /\ LET top == stack[1]
       IN  /\ top.ei > Len(view_out_edges(State, DfsGraph, view, top.u))
           /\ colors' = MapPut(colors, top.u, "black")
           /\ IF queue = <<>>
              THEN /\ pc' = "done"
                   /\ stack' = <<>>
                   /\ queue' = queue
              ELSE /\ pc' = "run"
                   /\ stack' = <<[u |-> Queue_top(queue), ei |-> 1]>>
                   /\ queue' = Queue_pop(queue)
    /\ UNCHANGED <<StoreVars, last, prune, root, mode, trace, examined, vprunes,
                   prune_at_start, kind, view, pruned_at, outer, resumed>>

BfsViews == {"direct", "reverse", "undirected"}

NextBfs ==
    \/ GraphPrune
    \/ \E vw \in BfsViews, r \in DfsValues, m \in DfsModes : EachBfs(vw, r, m)
    \/ \E callsPrune \in BOOLEAN : BfsExamineEdge(callsPrune)
    \/ BfsFinishVertex
    \/ EachReturn

BfsEdgeSets ==
    {E \in SUBSET (DfsHandles \X DfsHandles) : Cardinality(E) <= MaxBfsEdges}

InitBfs ==
    /\ \E E \in BfsEdgeSets : DfsStore(E)
    /\ NoTraversal
    /\ NoValueSet

SpecBfs == InitBfs /\ [][NextBfs]_vars

\* depth-first and breadth-first searches of the same graphs
NextSearch ==
    \/ NextDfs
    \/ NextBfs

SpecSearch == InitBfs /\ [][NextSearch]_vars

\* ------------------------------------------- searches started by a block
\* the local variables of the search whose block is running, as they are
\* when the block was called for the edge e of class what
Suspended(e, v_color, what) ==
    [pc |-> pc, kind |-> kind, view |-> view, root |-> root, mode |-> mode,
     colors |-> colors, stack |-> stack, queue |-> queue,
     trace |-> Append(trace, yield_values(State, DfsGraph, e, what)),
     examined |-> Append(examined, <<e.source, e.target, v_color>>),
     vprunes |-> vprunes, pruned_at |-> pruned_at, prune_at_start |-> prune_at_start]

\* the block called for the edge being examined calls graph.each_dfs or
\* graph.each_bfs on the same graph
BlockStartsSearch(nk, vw, r, m) ==
    /\ pc = "run"
    /\ ~resumed
    /\ Len(outer) < MaxNesting
    /\ LET top == stack[Len(stack)]
           out == view_out_edges(State, DfsGraph, view, top.u)
       IN  /\ top.ei <= Len(out)
           /\ LET e       == out[top.ei]
                  v_color == color_get(colors, e.target)
                  what    == IF kind = "dfs" THEN dfs_edge_class(v_color)
                             ELSE bfs_edge_class(v_color)
              IN  /\ yield_edge(what, mode)
                  /\ outer' = Append(outer, Suspended(e, v_color, what))
    /\ IF nk = "dfs" THEN graph_each_dfs(vw, r, m) ELSE graph_each_bfs(vw, r, m)

\* the search the block started has returned, and the block returns to the
\* search that called it, which goes on with the edge the block was called for
ReturnToBlock ==
    /\ pc = "done"
    /\ outer # <<>>
    /\ LET f == outer[Len(outer)]
       IN  /\ pc' = f.pc
           /\ kind' = f.kind
           /\ view' = f.view
           /\ root' = f.root
           /\ mode' = f.mode
           /\ colors' = f.colors
           /\ stack' = f.stack
           /\ queue' = f.queue
           /\ trace' = f.trace
           /\ examined' = f.examined
           /\ vprunes' = f.vprunes
           /\ pruned_at' = f.pruned_at
           /\ prune_at_start' = f.prune_at_start
    /\ outer' = SubSeq(outer, 1, Len(outer) - 1)
    /\ resumed' = TRUE
    /\ UNCHANGED <<StoreVars, last, prune>>

NestedEdgeSets ==
    {E \in SUBSET (DfsHandles \X DfsHandles) : Cardinality(E) <= MaxNestedEdges}

InitNested ==
    /\ \E E \in NestedEdgeSets : DfsStore(E)
    /\ NoTraversal
    /\ NoValueSet

NestedKinds == {"dfs", "bfs"}

\* searches for all edge classes, by blocks that start searches and never
\* call prune
NextNested ==
    \/ \E vw \in DfsViews, r \in DfsValues : EachDfs(vw, r, VISIT_ALL_EDGES)
    \/ \E vw \in BfsViews, r \in DfsValues : EachBfs(vw, r, VISIT_ALL_EDGES)
    \/ DfsExamineEdge(FALSE)
    \/ DfsFinishVertex
    \/ BfsExamineEdge(FALSE)
    \/ BfsFinishVertex
    \/ \E nk \in NestedKinds, vw \in BfsViews, r \in DfsValues :
          /\ nk = "dfs" => vw \in DfsViews
          /\ BlockStartsSearch(nk, vw, r, VISIT_ALL_EDGES)
    \/ ReturnToBlock
    \/ EachReturn

SpecNested == InitNested /\ [][NextNested]_vars

\* ---------------------------------------------------------- components
\* a Ruby Array is a sequence, here of sets of objects; Nil, the value of a
\* slot that was never set, is the set of the object 0, which is no vertex
Nil == {0}

\* rb_ary_store(ary, idx, x), idx counted from 0: the slot is overwritten
\* when the array has it, otherwise the array grows, with nil in the slots
\* in between
rb_ary_store(ary, idx, x) ==
    IF idx + 1 <= Len(ary) THEN [ary EXCEPT ![idx + 1] = x]
    ELSE ary \o [i \in 1..(idx - Len(ary)) |-> Nil] \o <<x>>

rb_ary_push(ary, x) == Append(ary, x)

\* ary.compact!
rb_ary_compact(ary) == SelectSeq(ary, LAMBDA x : x # Nil)

\* the descriptors a depth_first_visit of the view from the descriptors of
\* frontier discovers: those it reaches through vertices that are white
RECURSIVE dfs_discovered(_, _, _, _, _, _)
dfs_discovered(s, g, vw, cm, seen, frontier) ==
    IF frontier = {} THEN seen
    ELSE LET targets(u) == LET out_u == view_out_edges(s, g, vw, u)
                               IN  {out_u[i].target : i \in 1..Len(out_u)}
             out  == UNION {targets(u) : u \in frontier}
             next == {v \in out : color_get(cm, v) = "white"} \ (seen \cup frontier)
         IN  dfs_discovered(s, g, vw, cm, seen \cup frontier, next)

\* a visit that leaves the color map as it found it
dfs_blacken_nothing(cm, discovered) == cm

\* the color map after the visit: what was discovered is black
dfs_blacken(cm, discovered) ==
    [v \in DOMAIN cm \cup discovered |-> IF v \in discovered THEN "black" ELSE cm[v]]

\* boost::connected_components on the undirected view: the vertices are
\* taken in the order of vertices(g), every vertex still white starts the
\* next component, numbered from 0, which is what a depth-first visit
\* discovers from it
RECURSIVE connected_components_from(_, _, _, _)
connected_components_from(s, g, order, acc) ==
    IF order = <<>> THEN acc
    ELSE IF color_get(acc.color_map, Head(order)) # "white"
         THEN connected_components_from(s, g, Tail(order), acc)
         ELSE LET found == dfs_discovered(s, g, "undirected", acc.color_map, {},
                                          {Head(order)})
              IN  connected_components_from(s, g, Tail(order),
                      [count         |-> acc.count + 1,
                       component_map |-> [v \in DOMAIN acc.component_map \cup found |->
                                             IF v \in found THEN acc.count
                                             ELSE acc.component_map[v]],
                       color_map     |-> dfs_blacken(acc.color_map, found)])

connected_components(s, g) ==
    connected_components_from(s, g, SortedSeq(DOMAIN s.vertices[g]),
        [count |-> 0, component_map |-> EmptyMap, color_map |-> EmptyMap])

\* the loop of graph_components over its arguments: a seed that is not in
\* the graph is pushed on ret as a one-element array, the component of a seed
\* that is in the graph is enabled
RECURSIVE graph_components_seeds(_, _, _, _, _)
graph_components_seeds(g, argv, i, cc, acc) ==
    IF i > Len(argv) THEN acc
    ELSE LET found == bgl_rb_to_vertex(acc.state, argv[i], g)
         IN  graph_components_seeds(g, argv, i + 1, cc,
                 IF ~found.exists
                 THEN [state   |-> found.state,
                       ret     |-> rb_ary_push(acc.ret, {argv[i]}),
                       enabled |-> acc.enabled]
                 ELSE [state   |-> found.state,
                       ret     |-> acc.ret,
                       enabled |-> acc.enabled \cup {cc.component_map[found.v]}])

\* the loop over the components storing every component, enabled or not
RECURSIVE graph_components_store_all(_, _, _, _, _, _)
graph_components_store_all(s, g, cc, enabled, i, ret) ==
    IF i >= cc.count THEN ret
    ELSE graph_components_store_all(s, g, cc, enabled, i + 1,
             rb_ary_store(ret, i,
                 {s.vertices[g][v] : v \in {x \in DOMAIN cc.component_map :
                                               cc.component_map[x] = i}}))

\* the loop of graph_components over the components: the array of every
\* enabled component is stored in ret at the index of the component
RECURSIVE graph_components_store(_, _, _, _, _, _)
graph_components_store(s, g, cc, enabled, i, ret) ==
    IF i >= cc.count THEN ret
    ELSE graph_components_store(s, g, cc, enabled, i + 1,
             IF i \notin enabled THEN ret
             ELSE rb_ary_store(ret, i,
                      {s.vertices[g][v] : v \in {x \in DOMAIN cc.component_map :
                                                    cc.component_map[x] = i}}))

\* graph.components(*argv): the array returned (each component as the set of
\* its objects) and the store after the call
graph_components(s, g, argv) ==
    LET cc    == connected_components(s, g)
        seeds == IF Len(argv) = 0
                 THEN [state |-> s, ret |-> <<>>, enabled |-> 0..(cc.count - 1)]
                 ELSE graph_components_seeds(g, argv, 1, cc,
                          [state |-> s, ret |-> <<>>, enabled |-> {}])
        ret   == graph_components_store(s, g, cc, seeds.enabled, 0, seeds.ret)
    IN  [state |-> seeds.state, ret |-> rb_ary_compact(ret)]

\* graph_components_root_descriptor: the descriptor of the object v, or
\* NULL after pushing the singleton of v on result when v is not in the graph
graph_components_root_descriptor(acc, v, g) ==
    LET found == bgl_rb_to_vertex(acc.state, v, g)
    IN  IF ~found.exists
        THEN [acc EXCEPT !.state = found.state,
                         !.result = rb_ary_push(acc.result, {v}),
                         !.d = NullDescriptor]
        ELSE [acc EXCEPT !.state = found.state, !.d = found.v]

\* "*it": a transform_iterator calls graph_components_root_descriptor every
\* time it is dereferenced, a filter_iterator over vertices(g) gives the
\* descriptor it stands on
deref(acc, item, g) ==
    IF item.seed THEN graph_components_root_descriptor(acc, item.v, g)
    ELSE [acc EXCEPT !.d = item.v]

\* the loop body of graph_components_i dereferencing once more before it
\* skips an element that is not in the graph
graph_components_step_deref_twice(acc, item, g, vw) ==
    LET first == deref(deref(acc, item, g), item, g)
    IN  IF first.d = NullDescriptor THEN first
        ELSE LET found == dfs_discovered(first.state, g, vw, first.colors, {}, {first.d})
             IN  IF color_get(first.colors, first.d) # "white" THEN first
                 ELSE [first EXCEPT
                          !.result = rb_ary_push(first.result,
                                        {first.state.vertices[g][x] : x \in found}),
                          !.colors = dfs_blacken(first.colors, found),
                          !.visits = Append(first.visits, first.d)]

\* the loop body of graph_components_i: "*it" is evaluated for the test
\* against 0, for the color test, and for depth_first_visit, whose
\* vertex_recorder collects the objects of the vertices discovered
graph_components_step(acc, item, g, vw) ==
    LET first == deref(acc, item, g)
    IN  IF first.d = NullDescriptor THEN first
        ELSE LET second == deref(first, item, g)
             IN  IF color_get(second.colors, second.d) # "white" THEN second
                 ELSE LET third == deref(second, item, g)
                          found == dfs_discovered(third.state, g, vw, third.colors, {},
                                                  {third.d})
                      IN  [third EXCEPT
                              !.result = rb_ary_push(third.result,
                                            {third.state.vertices[g][x] : x \in found}),
                              !.colors = dfs_blacken(third.colors, found),
                              !.visits = Append(third.visits, third.d)]

RECURSIVE graph_components_i(_, _, _, _)
graph_components_i(acc, items, g, vw) ==
    IF items = <<>> THEN acc
    ELSE graph_components_i(graph_components_step(acc, Head(items), g, vw),
                            Tail(items), g, vw)

\* vertex_has_adjacent_i<Graph, true>: the vertex has no child in the view
vertex_has_adjacent_i_children(s, g, vw, v) ==
    IF vw = "direct" THEN Len(out_edges(s, g, v)) = 0
    ELSE IF vw = "reverse" THEN Len(in_edges(s, g, v)) = 0
    ELSE Len(in_edges(s, g, v)) = 0 /\ Len(out_edges(s, g, v)) = 0

\* vertex_has_adjacent_i<Graph, false>: the vertex has no parent in the view
vertex_has_adjacent_i(s, g, vw, v) ==
    IF vw = "direct" THEN Len(in_edges(s, g, v)) = 0
    ELSE IF vw = "reverse" THEN Len(out_edges(s, g, v)) = 0
    ELSE Len(in_edges(s, g, v)) = 0 /\ Len(out_edges(s, g, v)) = 0

\* graph_do_components: without argument the roots of the view, in the order
\* of vertices(g); otherwise the arguments.  "visits" lists the descriptors
\* depth_first_visit was started from.
graph_do_components(s, g, vw, argv) ==
    LET start == [state |-> s, result |-> <<>>, colors |-> EmptyMap,
                  d |-> NullDescriptor, visits |-> <<>>]
        roots == SelectSeq(SortedSeq(DOMAIN s.vertices[g]),
                           LAMBDA v : vertex_has_adjacent_i(s, g, vw, v))
        items == IF Len(argv) = 0
                 THEN [i \in 1..Len(roots) |-> [seed |-> FALSE, v |-> roots[i]]]
                 ELSE [i \in 1..Len(argv) |-> [seed |-> TRUE, v |-> argv[i]]]
    IN  graph_components_i(start, items, g, vw)

\* graph.directed_components(*argv), graph.reverse_directed_components(*argv)
graph_directed_components(s, g, argv) == graph_do_components(s, g, "direct", argv)

graph_reverse_directed_components(s, g, argv) == graph_do_components(s, g, "reverse", argv)

\* the seed lists: at most MaxSeeds objects, in or out of the graph
SeedLists == UNION {[1..n -> DfsValues] : n \in 0..MaxSeeds}

\* a call from the top level returns: only the "@__bgl_graphs__" maps of
\* the store can have changed
ComponentsCommit(s) ==
    /\ AtTopLevel
    /\ pc' = "done"
    /\ kind' = "components"
    /\ ivar_graph_map' = s.ivar_graph_map
    /\ UNCHANGED <<vertices, edges, graph_map, value_sets, prune, root, mode, colors,
                   stack, trace, examined, vprunes, prune_at_start, view, queue,
                   pruned_at, outer, resumed>>

\* the caller has taken the array returned
ComponentsReturn ==
    /\ pc = "done"
    /\ kind = "components"
    /\ pc' = "idle"
    /\ kind' = "none"
    /\ last' = Call("new", FALSE, "ok", 0)
    /\ UNCHANGED <<StoreVars, prune, root, mode, colors, stack, trace, examined,
                   vprunes, prune_at_start, view, queue, pruned_at, outer, resumed>>

\* graph.components(*argv); "last" keeps the arguments and the array returned
Components(argv) ==
    LET r == graph_components(State, DfsGraph, argv)
    IN  /\ ComponentsCommit(r.state)
        /\ last' = [op |-> "components", was |-> argv, res |-> <<>>, value |-> r.ret]

\* graph.directed_components(*argv); "last" also keeps the descriptors the
\* visits were started from
DirectedComponents(argv) ==
    LET r == graph_directed_components(State, DfsGraph, argv)
    IN  /\ ComponentsCommit(r.state)
        /\ last' = [op |-> "directed_components", was |-> argv, res |-> r.visits,
                    value |-> r.result]

ReverseDirectedComponents(argv) ==
    LET r == graph_reverse_directed_components(State, DfsGraph, argv)
    IN  /\ ComponentsCommit(r.state)
        /\ last' = [op |-> "reverse_directed_components", was |-> argv,
                    res |-> r.visits, value |-> r.result]

ComponentEdgeSets ==
    {E \in SUBSET (DfsHandles \X DfsHandles) : Cardinality(E) <= MaxComponentEdges}

InitComponents ==
    /\ \E E \in ComponentEdgeSets : DfsStore(E)
    /\ NoTraversal
    /\ NoValueSet

NextComponents ==
    \/ \E argv \in SeedLists : Components(argv)
    \/ \E argv \in SeedLists : DirectedComponents(argv)
    \/ \E argv \in SeedLists : ReverseDirectedComponents(argv)
    \/ ComponentsReturn

SpecComponents == InitComponents /\ [][NextComponents]_vars

\* ------------------------------------------- queries of roby_bgl/graph.cc
\* the optional graph argument left out
Qnil == 0

\* vertex_descriptors(self): the map of self, created when self has none
vertex_descriptors(s, self) == vertex_descriptor_map(s, self, TRUE)

\* vertex_has_adjacent_i<RubyGraph, direct> testing the other direction
vertex_has_adjacent_i_inverted(s, g, v, direct) ==
    IF direct THEN Len(in_edges(s, g, v)) = 0 ELSE Len(out_edges(s, g, v)) = 0

\* vertex_has_adjacent_i<RubyGraph, direct>(v, g): v has no child (direct)
\* or no parent (not direct) in g
vertex_has_adjacent_i_RubyGraph(s, g, v, direct) ==
    IF direct THEN Len(out_edges(s, g, v)) = 0 ELSE Len(in_edges(s, g, v)) = 0

\* for_each_graph(vertex, vertex_has_adjacent_i<RubyGraph, direct>): false
\* as soon as f is false for a graph of the vertex
for_each_graph(s, vertex, direct) ==
    LET s1 == vertex_descriptors(s, vertex)
    IN  [state  |-> s1,
         result |-> \A g \in DOMAIN s1.graph_map[vertex] :
                        vertex_has_adjacent_i_RubyGraph(s1, g, s1.graph_map[vertex][g],
                                                        direct)]

\* vertex_has_adjacent<direct>(argc, argv, self)
vertex_has_adjacent(s, self, graph, direct) ==
    IF graph = Qnil THEN for_each_graph(s, self, direct)
    ELSE LET found == rb_to_vertex(s, self, graph)
         IN  IF ~found[2] THEN [state |-> s, result |-> TRUE]
             ELSE [state  |-> s,
                   result |-> vertex_has_adjacent_i_RubyGraph(s, graph, found[1], direct)]

\* graph.root?(vertex), graph.leaf?(vertex), vertex.root?([graph]),
\* vertex.leaf?([graph])
graph_root_p(s, graph, vertex) == vertex_has_adjacent(s, vertex, graph, FALSE)

graph_leaf_p(s, graph, vertex) == vertex_has_adjacent(s, vertex, graph, TRUE)

vertex_root_p(s, self, graph) == vertex_has_adjacent(s, self, graph, FALSE)

vertex_leaf_p(s, self, graph) == vertex_has_adjacent(s, self, graph, TRUE)

\* vertex_parent_p looking for the edge from self to the other vertex
vertex_parent_p_swapped(s, self, rb_parent, rb_graph) ==
    IF rb_graph # Qnil
    THEN [state |-> s, result |-> graph_linked_p(s, rb_graph, self, rb_parent)]
    ELSE LET s1 == vertex_descriptors(s, self)
         IN  [state  |-> s1,
              result |-> \E g \in DOMAIN s1.graph_map[self] :
                             LET parent == rb_to_vertex(s1, rb_parent, g)
                             IN  parent[2] /\ edge(s1, g, s1.graph_map[self][g], parent[1])]

\* vertex.parent_vertex?(rb_parent [, rb_graph])
vertex_parent_p(s, self, rb_parent, rb_graph) ==
    IF rb_graph # Qnil
    THEN [state |-> s, result |-> graph_linked_p(s, rb_graph, rb_parent, self)]
    ELSE LET s1 == vertex_descriptors(s, self)
         IN  [state  |-> s1,
              result |-> \E g \in DOMAIN s1.graph_map[self] :
                             LET parent == rb_to_vertex(s1, rb_parent, g)
                             IN  parent[2] /\ edge(s1, g, parent[1], s1.graph_map[self][g])]

\* vertex.child_vertex?(child [, rb_graph]): swap(argv[0], self)
vertex_child_p(s, self, child, rb_graph) == vertex_parent_p(s, child, self, rb_graph)

\* vertex.related_vertex?(other [, rb_graph])
vertex_related_p(s, self, other, rb_graph) ==
    LET parent == vertex_parent_p(s, self, other, rb_graph)
    IN  IF parent.result THEN parent
        ELSE vertex_child_p(parent.state, self, other, rb_graph)

\* in_degree counting the out-edges
graph_in_degree_out(s, g, vertex) ==
    LET found == rb_to_vertex(s, vertex, g)
    IN  IF ~found[2] THEN 0 ELSE Len(out_edges(s, g, found[1]))

\* graph.in_degree(vertex)
graph_in_degree(s, g, vertex) ==
    LET found == rb_to_vertex(s, vertex, g)
    IN  IF ~found[2] THEN 0 ELSE Len(in_edges(s, g, found[1]))

\* graph.out_degree(vertex)
graph_out_degree(s, g, vertex) ==
    LET found == rb_to_vertex(s, vertex, g)
    IN  IF ~found[2] THEN 0 ELSE Len(out_edges(s, g, found[1]))

\* ------------------------------------------ iterations of roby_bgl/graph.cc
\* end() of a container, and the element that follows "it" in a container
\* ordered by its keys
ContainerEnd == 0

Begin(keys) ==
    IF keys = {} THEN ContainerEnd ELSE CHOOSE k \in keys : \A x \in keys : k <= x

Increment(keys, it) == Begin({k \in keys : k > it})

\* vertex_each_graph incrementing the iterator after the block: the
\* iterator of an entry the block erased is invalid, the loop is taken to
\* end there
RECURSIVE vertex_each_graph_increment_after(_, _, _, _, _)
vertex_each_graph_increment_after(s, self, it, removes, yields) ==
    IF it = ContainerEnd THEN [state |-> s, yields |-> yields]
    ELSE LET s1   == IF removes[it] THEN graph_remove(s, it, self) ELSE s
             next == IF it \in DOMAIN s1.graph_map[self]
                     THEN Increment(DOMAIN s1.graph_map[self], it)
                     ELSE ContainerEnd
         IN  vertex_each_graph_increment_after(s1, self, next, removes, Append(yields, it))

\* the loop of vertex_each_graph from the entry "it" of the map of self:
\* the iterator is incremented, then the block is called with the graph;
\* the block removes self from the graph when removes[graph]
RECURSIVE vertex_each_graph_loop(_, _, _, _, _)
vertex_each_graph_loop(s, self, it, removes, yields) ==
    IF it = ContainerEnd THEN [state |-> s, yields |-> yields]
    ELSE LET next == Increment(DOMAIN s.graph_map[self], it)
             s1   == IF removes[it] THEN graph_remove(s, it, self) ELSE s
         IN  vertex_each_graph_loop(s1, self, next, removes, Append(yields, it))

\* vertex.each_graph { |graph| ... }
vertex_each_graph(s, self, removes) ==
    IF ~s.ivar_graph_map[self] THEN [state |-> s, yields |-> <<>>]
    ELSE vertex_each_graph_loop(s, self, Begin(DOMAIN s.graph_map[self]), removes, <<>>)

\* the loop of graph_each_vertex from the vertex "it" of vertices(graph), a
\* std::set of descriptors; the block removes the vertex from the graph when
\* removes[vertex]
RECURSIVE graph_each_vertex_loop(_, _, _, _, _)
graph_each_vertex_loop(s, g, it, removes, yields) ==
    IF it = ContainerEnd THEN [state |-> s, yields |-> yields]
    ELSE LET vertex == s.vertices[g][it]
             next   == Increment(DOMAIN s.vertices[g], it)
             s1     == IF removes[vertex] THEN graph_remove(s, g, vertex) ELSE s
         IN  graph_each_vertex_loop(s1, g, next, removes, Append(yields, vertex))

\* graph.each_vertex { |vertex| ... }
graph_each_vertex(s, g, removes) ==
    graph_each_vertex_loop(s, g, Begin(DOMAIN s.vertices[g]), removes, <<>>)

\* the orders the edge list of the graph, a std::list in the order the edges
\* were added, can have
EdgeLists(s, g) ==
    {l \in [1..Cardinality(s.edges[g]) -> s.edges[g]] :
        \A i, j \in DOMAIN l : i # j => l[i] # l[j]}

\* graph_each_edge incrementing the iterator after the block: the iterator
\* of an edge the block removed is invalid, the loop is taken to end there
RECURSIVE graph_each_edge_increment_after(_, _, _, _, _, _)
graph_each_edge_increment_after(s, g, list, it, unlinks, yields) ==
    IF it > Len(list) THEN [state |-> s, yields |-> yields]
    ELSE LET from == s.vertices[g][list[it].source]
             to   == s.vertices[g][list[it].target]
             data == edge_info(s, g, list[it].source, list[it].target)
             s1   == IF unlinks[it] THEN graph_unlink(s, g, from, to) ELSE s
         IN  graph_each_edge_increment_after(s1, g, list,
                 IF unlinks[it] THEN Len(list) + 1 ELSE it + 1, unlinks,
                 Append(yields, <<from, to, data>>))

\* the loop of graph_each_edge from the position "it" of the edge list; the
\* block unlinks the edge it is given when unlinks[it]
RECURSIVE graph_each_edge_loop(_, _, _, _, _, _)
graph_each_edge_loop(s, g, list, it, unlinks, yields) ==
    IF it > Len(list) THEN [state |-> s, yields |-> yields]
    ELSE LET from == s.vertices[g][list[it].source]
             to   == s.vertices[g][list[it].target]
             data == edge_info(s, g, list[it].source, list[it].target)
             next == it + 1
             s1   == IF unlinks[it] THEN graph_unlink(s, g, from, to) ELSE s
         IN  graph_each_edge_loop(s1, g, list, next, unlinks,
                                  Append(yields, <<from, to, data>>))

\* ------------------------------------------------ queries and iterations
\* the stores the calls of BGL::Graph build: in every graph the live
\* descriptors with their objects, each object at most once
VertexMaps ==
    {f \in UNION {[H -> Values] : H \in SUBSET Handles} :
        \A a, b \in DOMAIN f : a # b => f[a] # f[b]}

\* the sets of at most n elements of R
RECURSIVE SubsetsUpTo(_, _)
SubsetsUpTo(R, n) ==
    IF n = 0 THEN {{}}
    ELSE LET smaller == SubsetsUpTo(R, n - 1)
         IN  smaller \cup {S \cup {x} : S \in smaller, x \in R}

\* the edges the graphs can hold over the vertices vs: at most MaxEdges in
\* all, one edge at most from a vertex to a vertex
EdgeChoices(vs) ==
    LET R == {r \in [g : Graphs, source : Handles, target : Handles, info : Payloads] :
                 r.source \in DOMAIN vs[r.g] /\ r.target \in DOMAIN vs[r.g]}
    IN  {E \in SubsetsUpTo(R, MaxEdges) :
            \A a, b \in E : (a.g = b.g /\ a.source = b.source /\ a.target = b.target)
                                => a = b}

\* the store with the vertices vs and the edges E, as insert and link build
\* it: the objects that are in a graph have a "@__bgl_graphs__" map
QueryStore(vs, E) ==
    /\ vertices = vs
    /\ edges = [g \in Graphs |->
                   {[source |-> r.source, target |-> r.target, info |-> r.info] :
                       r \in {x \in E : x.g = g}}]
    /\ graph_map = [v \in Values |->
                       [g \in {x \in Graphs : \E h \in DOMAIN vs[x] : vs[x][h] = v} |->
                           CHOOSE h \in DOMAIN vs[g] : vs[g][h] = v]]
    /\ ivar_graph_map = [v \in Values |->
                            \E g \in Graphs, h \in Handles :
                                h \in DOMAIN vs[g] /\ vs[g][h] = v]

InitQuery ==
    /\ \E vs \in [Graphs -> VertexMaps] :
          \E E \in EdgeChoices(vs) : QueryStore(vs, E)
    /\ last = Call("new", FALSE, "ok", 0)
    /\ NoTraversal
    /\ NoValueSet

\* a call from the top level returns, leaving the store s
CallReturns(k, s) ==
    /\ AtTopLevel
    /\ pc' = "done"
    /\ kind' = k
    /\ vertices' = s.vertices
    /\ edges' = s.edges
    /\ ivar_graph_map' = s.ivar_graph_map
    /\ graph_map' = s.graph_map
    /\ UNCHANGED <<value_sets, prune, root, mode, colors, stack, trace, examined, vprunes,
                   prune_at_start, view, queue, pruned_at, outer, resumed>>

\* the caller has taken what the call returned
CallReturned ==
    /\ pc = "done"
    /\ kind \in {"query", "iteration", "value_set"}
    /\ pc' = "idle"
    /\ kind' = "none"
    /\ last' = Call("new", FALSE, "ok", 0)
    /\ UNCHANGED <<StoreVars, prune, root, mode, colors, stack, trace, examined,
                   vprunes, prune_at_start, view, queue, pruned_at, outer, resumed>>

\* the optional graph argument
OptionalGraphs == Graphs \cup {Qnil}

\* graph.root?(v) and graph.leaf?(v); "last" keeps the arguments, what the
\* "@__bgl_graphs__" flags were, and the answer
GraphRootP(g, v) ==
    LET r == graph_root_p(State, g, v)
    IN  /\ CallReturns("query", r.state)
        /\ last' = [op |-> "graph_root_p", was |-> ivar_graph_map,
                    res |-> [self |-> v, other |-> v, graph |-> g], value |-> r.result]

GraphLeafP(g, v) ==
    LET r == graph_leaf_p(State, g, v)
    IN  /\ CallReturns("query", r.state)
        /\ last' = [op |-> "graph_leaf_p", was |-> ivar_graph_map,
                    res |-> [self |-> v, other |-> v, graph |-> g], value |-> r.result]

\* v.root?([g]) and v.leaf?([g])
VertexRootP(v, g) ==
    LET r == vertex_root_p(State, v, g)
    IN  /\ CallReturns("query", r.state)
        /\ last' = [op |-> "vertex_root_p", was |-> ivar_graph_map,
                    res |-> [self |-> v, other |-> v, graph |-> g], value |-> r.result]

VertexLeafP(v, g) ==
    LET r == vertex_leaf_p(State, v, g)
    IN  /\ CallReturns("query", r.state)
        /\ last' = [op |-> "vertex_leaf_p", was |-> ivar_graph_map,
                    res |-> [self |-> v, other |-> v, graph |-> g], value |-> r.result]

\* v.parent_vertex?(p [, g]), v.child_vertex?(c [, g]), v.related_vertex?(o [, g])
VertexParentP(v, p, g) ==
    LET r == vertex_parent_p(State, v, p, g)
    IN  /\ CallReturns("query", r.state)
        /\ last' = [op |-> "vertex_parent_p", was |-> ivar_graph_map,
                    res |-> [self |-> v, other |-> p, graph |-> g], value |-> r.result]

VertexChildP(v, c, g) ==
    LET r == vertex_child_p(State, v, c, g)
    IN  /\ CallReturns("query", r.state)
        /\ last' = [op |-> "vertex_child_p", was |-> ivar_graph_map,
                    res |-> [self |-> v, other |-> c, graph |-> g], value |-> r.result]

VertexRelatedP(v, o, g) ==
    LET r == vertex_related_p(State, v, o, g)
    IN  /\ CallReturns("query", r.state)
        /\ last' = [op |-> "vertex_related_p", was |-> ivar_graph_map,
                    res |-> [self |-> v, other |-> o, graph |-> g], value |-> r.result]

\* g.in_degree(v), g.out_degree(v)
InDegree(g, v) ==
    /\ CallReturns("query", State)
    /\ last' = [op |-> "in_degree", was |-> ivar_graph_map,
                res |-> [self |-> v, other |-> v, graph |-> g],
                value |-> graph_in_degree(State, g, v)]

OutDegree(g, v) ==
    /\ CallReturns("query", State)
    /\ last' = [op |-> "out_degree", was |-> ivar_graph_map,
                res |-> [self |-> v, other |-> v, graph |-> g],
                value |-> graph_out_degree(State, g, v)]

NextQuery ==
    \/ \E g \in Graphs, v \in Values : GraphRootP(g, v)
    \/ \E g \in Graphs, v \in Values : GraphLeafP(g, v)
    \/ \E v \in Values, g \in OptionalGraphs : VertexRootP(v, g)
    \/ \E v \in Values, g \in OptionalGraphs : VertexLeafP(v, g)
    \/ \E v \in Values, p \in Values, g \in OptionalGraphs : VertexParentP(v, p, g)
    \/ \E v \in Values, c \in Values, g \in OptionalGraphs : VertexChildP(v, c, g)
    \/ \E v \in Values, o \in Values, g \in OptionalGraphs : VertexRelatedP(v, o, g)
    \/ \E g \in Graphs, v \in Values : InDegree(g, v)
    \/ \E g \in Graphs, v \in Values : OutDegree(g, v)
    \/ CallReturned

SpecQuery == InitQuery /\ [][NextQuery]_vars

\* v.each_graph { |g| ... }, the block removing v from g when removes[g];
\* "last" keeps v, the graphs v was in, the choices of the block and the
\* graphs the block was given
EachGraph(v, removes) ==
    LET r == vertex_each_graph(State, v, removes)
    IN  /\ CallReturns("iteration", r.state)
        /\ last' = [op |-> "each_graph",
                    was |-> [self |-> v, before |-> DOMAIN graph_map[v],
                             removes |-> removes],
                    res |-> r.yields, value |-> 0]

\* g.each_vertex { |v| ... }, the block removing v from g when removes[v]
EachVertex(g, removes) ==
    LET r == graph_each_vertex(State, g, removes)
    IN  /\ CallReturns("iteration", r.state)
        /\ last' = [op |-> "each_vertex",
                    was |-> [self |-> g, before |-> graph_vertices(State, g),
                             removes |-> removes],
                    res |-> r.yields, value |-> 0]

\* g.each_edge { |from, to, info| ... }, the block unlinking its i-th edge
\* when unlinks[i]
EachEdge(g, list, unlinks) ==
    LET r == graph_each_edge_loop(State, g, list, 1, unlinks, <<>>)
    IN  /\ CallReturns("iteration", r.state)
        /\ last' = [op |-> "each_edge",
                    was |-> [self |-> g, before |-> graph_each_edge(State, g),
                             removes |-> unlinks],
                    res |-> r.yields, value |-> 0]

NextIteration ==
    \/ \E v \in Values, removes \in [Graphs -> BOOLEAN] : EachGraph(v, removes)
    \/ \E g \in Graphs, removes \in [Values -> BOOLEAN] : EachVertex(g, removes)
    \/ \E g \in Graphs :
          \E list \in EdgeLists(State, g) :
             \E unlinks \in [1..Len(list) -> BOOLEAN] : EachEdge(g, list, unlinks)
    \/ CallReturned

SpecIteration == InitQuery /\ [][NextIteration]_vars

\* ------------------------- undirected view (roby_bgl/undirected_graph.hh)
\* The edge descriptor of the view is the pair of the stored edge and a flag
\* telling whether the edge is seen flipped.
make_out_edge_descriptor(e) == <<e, FALSE>>
make_in_edge_descriptor(e) == <<e, TRUE>>

\* utilmm::iterator_sequence over the ranges R1 and R2: the position in the
\* first range and the position in the second; the end of a range R is
\* Len(R) + 1
iterator_sequence(first, second) == [m_first |-> first, m_second |-> second]

iterator_sequence_dereference(R1, R2, it) ==
    IF it.m_first = Len(R1) + 1 THEN R2[it.m_second] ELSE R1[it.m_first]

iterator_sequence_increment(R1, R2, it) ==
    IF it.m_first = Len(R1) + 1
    THEN [it EXCEPT !.m_second = @ + 1]
    ELSE [it EXCEPT !.m_first = @ + 1]

\* for (it = begin; it != end; ++it) collect *it
RECURSIVE iterator_sequence_range(_, _, _, _)
iterator_sequence_range(R1, R2, it, end) ==
    IF it = end THEN <<>>
    ELSE <<iterator_sequence_dereference(R1, R2, it)>>
            \o iterator_sequence_range(R1, R2,
                                       iterator_sequence_increment(R1, R2, it), end)

\* out_edges(u, undirected_graph): the sequence of the in-edges of u, flagged,
\* and of the out-edges of u
undirected_out_edges(s, g, u) ==
    LET ins  == [i \in 1..Len(in_edges(s, g, u)) |->
                    make_in_edge_descriptor(in_edges(s, g, u)[i])]
        outs == [i \in 1..Len(out_edges(s, g, u)) |->
                    make_out_edge_descriptor(out_edges(s, g, u)[i])]
    IN  iterator_sequence_range(ins, outs,
                                iterator_sequence(1, 1),
                                iterator_sequence(Len(ins) + 1, Len(outs) + 1))

undirected_in_edges(s, g, u) == undirected_out_edges(s, g, u)

\* a view whose source() forgets the flag
undirected_source_as_stored(e) == e[1].source

\* source(e, undirected_graph) and target(e, undirected_graph)
undirected_source(e) == IF e[2] THEN e[1].target ELSE e[1].source

undirected_target(e) == IF e[2] THEN e[1].source ELSE e[1].target

\* out_degree(u, undirected_graph) and in_degree(u, undirected_graph)
undirected_out_degree(s, g, u) == Len(in_edges(s, g, u)) + Len(out_edges(s, g, u))

undirected_in_degree(s, g, u) == undirected_out_degree(s, g, u)

\* adjacent_vertices(u, undirected_graph): the sequence of the successors of
\* u and of its predecessors
undirected_adjacent_vertices(s, g, u) ==
    LET adjacency     == [i \in 1..Len(out_edges(s, g, u)) |-> out_edges(s, g, u)[i].target]
        inv_adjacency == [i \in 1..Len(in_edges(s, g, u)) |-> in_edges(s, g, u)[i].source]
    IN  iterator_sequence_range(adjacency, inv_adjacency,
                                iterator_sequence(1, 1),
                                iterator_sequence(Len(adjacency) + 1,
                                                  Len(inv_adjacency) + 1))

\* the view asked about vertex u of graph DfsGraph; "last" keeps u, the
\* descriptors or vertices the view gave, and what source() and target() say
\* of each descriptor
UndirectedOutEdges(u) ==
    LET r == undirected_out_edges(State, DfsGraph, u)
    IN  /\ CallReturns("query", State)
        /\ last' = [op |-> "out_edges", was |-> u, res |-> r,
                    value |-> [i \in 1..Len(r) |->
                                  [source |-> undirected_source(r[i]),
                                   target |-> undirected_target(r[i]),
                                   info |-> r[i][1].info]]]

UndirectedInEdges(u) ==
    LET r == undirected_in_edges(State, DfsGraph, u)
    IN  /\ CallReturns("query", State)
        /\ last' = [op |-> "in_edges", was |-> u, res |-> r,
                    value |-> [i \in 1..Len(r) |->
                                  [source |-> undirected_source(r[i]),
                                   target |-> undirected_target(r[i]),
                                   info |-> r[i][1].info]]]

UndirectedAdjacentVertices(u) ==
    /\ CallReturns("query", State)
    /\ last' = [op |-> "adjacent_vertices", was |-> u,
                res |-> undirected_adjacent_vertices(State, DfsGraph, u),
                value |-> 0]

UndirectedOutDegree(u) ==
    /\ CallReturns("query", State)
    /\ last' = [op |-> "undirected_out_degree", was |-> u, res |-> <<>>,
                value |-> undirected_out_degree(State, DfsGraph, u)]

UndirectedInDegree(u) ==
    /\ CallReturns("query", State)
    /\ last' = [op |-> "undirected_in_degree", was |-> u, res |-> <<>>,
                value |-> undirected_in_degree(State, DfsGraph, u)]

NextUndirected ==
    \/ \E u \in DfsHandles : UndirectedOutEdges(u)
    \/ \E u \in DfsHandles : UndirectedInEdges(u)
    \/ \E u \in DfsHandles : UndirectedAdjacentVertices(u)
    \/ \E u \in DfsHandles : UndirectedOutDegree(u)
    \/ \E u \in DfsHandles : UndirectedInDegree(u)
    \/ CallReturned

SpecUndirected == InitBfs /\ [][NextUndirected]_vars

\* --------------------------------------- ValueSet (value_set/value_set.cc)
\* A ValueSet wraps a std::set<VALUE> ordered by the VALUE; value_sets[id] is
\* the set of the elements of the object id, SortedSeq of it the range from
\* begin() to end().
SetIds == 1..NumSets
SetValues == 1..NumSetValues

\* the object rb_funcall2(cValueSet, id_new, 0, NULL) returns: none of SetIds
NewSet == 0

\* std::set_union that forgets what remains of the ranges when one ends
RECURSIVE std_set_union_no_copy(_, _)
std_set_union_no_copy(r1, r2) ==
    IF r1 = <<>> \/ r2 = <<>> THEN <<>>
    ELSE IF Head(r2) < Head(r1)
    THEN <<Head(r2)>> \o std_set_union_no_copy(r1, Tail(r2))
    ELSE <<Head(r1)>> \o std_set_union_no_copy(
                              Tail(r1), IF ~(Head(r1) < Head(r2)) THEN Tail(r2) ELSE r2)

\* std::set_union(first1, last1, first2, last2, out): the merge of two
\* sorted ranges, an element of both copied once
RECURSIVE std_set_union(_, _)
std_set_union(r1, r2) ==
    IF r1 = <<>> THEN r2
    ELSE IF r2 = <<>> THEN r1
    ELSE IF Head(r2) < Head(r1)
    THEN <<Head(r2)>> \o std_set_union(r1, Tail(r2))
    ELSE <<Head(r1)>> \o std_set_union(
                              Tail(r1), IF ~(Head(r1) < Head(r2)) THEN Tail(r2) ELSE r2)

\* std::set_intersection(first1, last1, first2, last2, out)
RECURSIVE std_set_intersection(_, _)
std_set_intersection(r1, r2) ==
    IF r1 = <<>> \/ r2 = <<>> THEN <<>>
    ELSE IF Head(r1) < Head(r2) THEN std_set_intersection(Tail(r1), r2)
    ELSE IF ~(Head(r2) < Head(r1))
    THEN <<Head(r1)>> \o std_set_intersection(Tail(r1), Tail(r2))
    ELSE std_set_intersection(r1, Tail(r2))

\* std::set_difference(first1, last1, first2, last2, out)
RECURSIVE std_set_difference(_, _)
std_set_difference(r1, r2) ==
    IF r1 = <<>> THEN <<>>
    ELSE IF r2 = <<>> THEN r1
    ELSE IF Head(r1) < Head(r2)
    THEN <<Head(r1)>> \o std_set_difference(Tail(r1), r2)
    ELSE std_set_difference(IF ~(Head(r2) < Head(r1)) THEN Tail(r1) ELSE r1, Tail(r2))

\* std::includes(first1, last1, first2, last2)
RECURSIVE std_includes(_, _)
std_includes(r1, r2) ==
    IF r2 = <<>> THEN TRUE
    ELSE IF r1 = <<>> \/ Head(r2) < Head(r1) THEN FALSE
    ELSE std_includes(Tail(r1), IF ~(Head(r1) < Head(r2)) THEN Tail(r2) ELSE r2)

\* std::inserter(result, result.end()) given the range out: each element is
\* inserted in the std::set result
RECURSIVE std_inserter(_, _)
std_inserter(result, out) ==
    IF out = <<>> THEN result
    ELSE std_inserter(result \cup {Head(out)}, Tail(out))

\* set.include?(value)
value_set_include_p(self, vother) == vother \in self

\* set.empty?
value_set_empty_p(self) == self = {}

\* set == other: operator== of std::set compares the sizes, then the ranges
\* element by element
value_set_equal(self, other) ==
    /\ Cardinality(self) = Cardinality(other)
    /\ \A i \in 1..Cardinality(self) : SortedSeq(self)[i] = SortedSeq(other)[i]

\* set.include_all?(other)
value_set_include_all_p(self, other) == std_includes(SortedSeq(self), SortedSeq(other))

\* set.union(other), set.intersection(other), set.difference(other): the
\* elements of the new set
value_set_union(self, other) ==
    std_inserter({}, std_set_union(SortedSeq(self), SortedSeq(other)))

value_set_intersection(self, other) ==
    std_inserter({}, std_set_intersection(SortedSeq(self), SortedSeq(other)))

value_set_difference(self, other) ==
    std_inserter({}, std_set_difference(SortedSeq(self), SortedSeq(other)))

\* a scan of intersects? that steps over an element of both sets
RECURSIVE value_set_intersects_skip_common(_, _, _)
value_set_intersects_skip_common(self_it, other_it, steps) ==
    IF self_it = <<>> \/ other_it = <<>> THEN [result |-> FALSE, steps |-> steps]
    ELSE IF Head(self_it) < Head(other_it)
    THEN value_set_intersects_skip_common(Tail(self_it), other_it, steps + 1)
    ELSE value_set_intersects_skip_common(self_it, Tail(other_it), steps + 1)

\* the while loop of set.intersects?(other) from the positions self_it and
\* other_it (what remains of each range); steps counts the increments
RECURSIVE value_set_intersects_loop(_, _, _)
value_set_intersects_loop(self_it, other_it, steps) ==
    IF self_it = <<>> \/ other_it = <<>> THEN [result |-> FALSE, steps |-> steps]
    ELSE IF Head(self_it) < Head(other_it)
    THEN value_set_intersects_loop(Tail(self_it), other_it, steps + 1)
    ELSE IF Head(other_it) < Head(self_it)
    THEN value_set_intersects_loop(self_it, Tail(other_it), steps + 1)
    ELSE [result |-> TRUE, steps |-> steps]

\* set.intersects?(other)
value_set_intersects(self, other) ==
    value_set_intersects_loop(SortedSeq(self), SortedSeq(other), 0)

\* set.merge(other): the elements of set afterwards
value_set_merge(self, other) == std_inserter(self, SortedSeq(other))

\* set.intersection!(other): the elements of set afterwards
value_set_intersection_bang(self, other) ==
    LET result == std_inserter({}, std_set_intersection(SortedSeq(self), SortedSeq(other)))
    IN  result

\* difference! that keeps self when the sizes differ
value_set_difference_bang_no_swap(self, other) == self

\* set.difference!(other): the elements of set afterwards
value_set_difference_bang(self, other) ==
    LET result == std_inserter({}, std_set_difference(SortedSeq(self), SortedSeq(other)))
    IN  IF Cardinality(result) # Cardinality(self) THEN result ELSE self

\* a loop of each that increments the iterator after the block: the iterator
\* of an element the block erased is invalid, the loop is taken to end there
RECURSIVE value_set_each_increment_after(_, _, _, _)
value_set_each_increment_after(self, it, deletes, yields) ==
    IF it = ContainerEnd THEN [set |-> self, yields |-> yields]
    ELSE LET self1 == IF deletes[it] THEN self \ {it} ELSE self
             next  == IF it \in self1 THEN Increment(self1, it) ELSE ContainerEnd
         IN  value_set_each_increment_after(self1, next, deletes, Append(yields, it))

\* the loop of set.each from the element "it": the iterator is incremented,
\* then the block is called with the element this_it; the block deletes the
\* element from the set when deletes[element]
RECURSIVE value_set_each_loop(_, _, _, _)
value_set_each_loop(self, it, deletes, yields) ==
    IF it = ContainerEnd THEN [set |-> self, yields |-> yields]
    ELSE LET this_it == it
             next    == Increment(self, it)
             self1   == IF deletes[this_it] THEN self \ {this_it} ELSE self
         IN  value_set_each_loop(self1, next, deletes, Append(yields, this_it))

\* set.each { |obj| ... }
value_set_each(self, deletes) == value_set_each_loop(self, Begin(self), deletes, <<>>)

\* the loop of set.delete_if from the element "it": the iterator is
\* incremented, the block is called with the element this_it, which is
\* erased when the block returns true (do_delete[element])
RECURSIVE value_set_delete_if_loop(_, _, _, _)
value_set_delete_if_loop(self, it, do_delete, yields) ==
    IF it = ContainerEnd THEN [set |-> self, yields |-> yields]
    ELSE LET this_it == it
             next    == Increment(self, it)
             self1   == IF do_delete[this_it] THEN self \ {this_it} ELSE self
         IN  value_set_delete_if_loop(self1, next, do_delete, Append(yields, this_it))

\* set.delete_if { |obj| ... }
value_set_delete_if(self, do_delete) ==
    value_set_delete_if_loop(self, Begin(self), do_delete, <<>>)

\* a call from the top level on the set a with the argument arg returns the
\* object "returned" and the value v, leaving the sets s; "last" keeps the
\* call, what the sets were and what was returned
ValueSetCall(op, a, b, arg, returned, v, s) ==
    /\ AtTopLevel
    /\ pc' = "done"
    /\ kind' = "value_set"
    /\ value_sets' = s
    /\ last' = [op |-> op, was |-> value_sets,
                res |-> [self |-> a, other |-> b, arg |-> arg, returned |-> returned],
                value |-> v]
    /\ UNCHANGED <<vertices, edges, ivar_graph_map, graph_map, prune, root, mode,
                   colors, stack, trace, examined, vprunes, prune_at_start, view,
                   queue, pruned_at, outer, resumed>>

ValueSetUnion(a, b) ==
    ValueSetCall("union", a, b, 0, NewSet,
                 value_set_union(value_sets[a], value_sets[b]), value_sets)

ValueSetIntersection(a, b) ==
    ValueSetCall("intersection", a, b, 0, NewSet,
                 value_set_intersection(value_sets[a], value_sets[b]), value_sets)

ValueSetDifference(a, b) ==
    ValueSetCall("difference", a, b, 0, NewSet,
                 value_set_difference(value_sets[a], value_sets[b]), value_sets)

ValueSetEqual(a, b) ==
    ValueSetCall("==", a, b, 0, NewSet,
                 value_set_equal(value_sets[a], value_sets[b]), value_sets)

ValueSetIncludeP(a, x) ==
    ValueSetCall("include?", a, a, x, NewSet,
                 value_set_include_p(value_sets[a], x), value_sets)

ValueSetIntersects(a, b) ==
    ValueSetCall("intersects?", a, b,
                 value_set_intersects(value_sets[a], value_sets[b]).steps, NewSet,
                 value_set_intersects(value_sets[a], value_sets[b]).result, value_sets)

ValueSetIncludeAllP(a, b) ==
    ValueSetCall("include_all?", a, b, 0, NewSet,
                 value_set_include_all_p(value_sets[a], value_sets[b]), value_sets)

\* the in-place operations return self; self and other are two objects
ValueSetMerge(a, b) ==
    /\ a # b
    /\ LET r == value_set_merge(value_sets[a], value_sets[b])
       IN  ValueSetCall("merge", a, b, 0, a, r, [value_sets EXCEPT ![a] = r])

ValueSetIntersectionBang(a, b) ==
    /\ a # b
    /\ LET r == value_set_intersection_bang(value_sets[a], value_sets[b])
       IN  ValueSetCall("intersection!", a, b, 0, a, r, [value_sets EXCEPT ![a] = r])

ValueSetDifferenceBang(a, b) ==
    /\ a # b
    /\ LET r == value_set_difference_bang(value_sets[a], value_sets[b])
       IN  ValueSetCall("difference!", a, b, 0, a, r, [value_sets EXCEPT ![a] = r])

\* set.each with a block that deletes the element it is given when
\* deletes[element]; "last" keeps the choices of the block and the elements
\* the block was given
ValueSetEach(a, deletes) ==
    LET r == value_set_each(value_sets[a], deletes)
    IN  ValueSetCall("each", a, a, deletes, a, r.yields, [value_sets EXCEPT ![a] = r.set])

\* set.delete_if with a block that returns do_delete[element]
ValueSetDeleteIf(a, do_delete) ==
    LET r == value_set_delete_if(value_sets[a], do_delete)
    IN  ValueSetCall("delete_if", a, a, do_delete, a, r.yields,
                     [value_sets EXCEPT ![a] = r.set])

\* NumSets ValueSet objects holding any of the values
InitValueSet ==
    /\ vertices = [g \in Graphs |-> EmptyMap]
    /\ edges = [g \in Graphs |-> {}]
    /\ ivar_graph_map = [v \in Values |-> FALSE]
    /\ graph_map = [v \in Values |-> EmptyMap]
    /\ last = Call("new", FALSE, "ok", 0)
    /\ value_sets \in [SetIds -> SUBSET SetValues]
    /\ NoTraversal

NextValueSet ==
    \/ \E a, b \in SetIds : ValueSetUnion(a, b)
    \/ \E a, b \in SetIds : ValueSetIntersection(a, b)
    \/ \E a, b \in SetIds : ValueSetDifference(a, b)
    \/ \E a, b \in SetIds : ValueSetEqual(a, b)
    \/ \E a \in SetIds, x \in SetValues : ValueSetIncludeP(a, x)
    \/ \E a, b \in SetIds : ValueSetIntersects(a, b)
    \/ \E a, b \in SetIds : ValueSetIncludeAllP(a, b)
    \/ \E a, b \in SetIds : ValueSetMerge(a, b)
    \/ \E a, b \in SetIds : ValueSetIntersectionBang(a, b)
    \/ \E a, b \in SetIds : ValueSetDifferenceBang(a, b)
    \/ \E a \in SetIds, deletes \in [SetValues -> BOOLEAN] : ValueSetEach(a, deletes)
    \/ \E a \in SetIds, do_delete \in [SetValues -> BOOLEAN] : ValueSetDeleteIf(a, do_delete)
    \/ CallReturned

SpecValueSet == InitValueSet /\ [][NextValueSet]_vars

\* the searches when graph.prune is called by the blocks only, never from
\* the top level
NextSearchPruningInBlocks ==
    \/ \E vw \in DfsViews, r \in DfsValues, m \in DfsModes : EachDfs(vw, r, m)
    \/ \E callsPrune \in BOOLEAN : DfsExamineEdge(callsPrune)
    \/ DfsFinishVertex
    \/ \E vw \in BfsViews, r \in DfsValues, m \in DfsModes : EachBfs(vw, r, m)
    \/ \E callsPrune \in BOOLEAN : BfsExamineEdge(callsPrune)
    \/ BfsFinishVertex
    \/ EachReturn

SpecPruningInBlocks == InitBfs /\ [][NextSearchPruningInBlocks]_vars

\* a turn of the loop of depth_first_visit
DfsStep ==
    \/ \E callsPrune \in BOOLEAN : DfsExamineEdge(callsPrune)
    \/ DfsFinishVertex

\* the depth-first searches with a block that returns: the loop of
\* depth_first_visit goes on until each_dfs returns
SpecDfsFair == InitBfs /\ [][NextDfs]_vars /\ WF_vars(DfsStep)

\* ---------------------------------------------------- claims, traversals
\* the descriptors reachable from descriptor u along the edges of the graph
RECURSIVE ReachableFrom(_, _)
ReachableFrom(seen, frontier) ==
    IF frontier = {} THEN seen
    ELSE LET next == {e.target : e \in {x \in edges[DfsGraph] : x.source \in frontier}}
         IN  ReachableFrom(seen \cup frontier, next \ (seen \cup frontier))

RootReach ==
    LET v == rb_to_vertex(State, root, DfsGraph)
    IN  IF v[2] THEN ReachableFrom({}, {v[1]}) ELSE {}

\* the callbacks of a finished each_dfs(root, ALL) are, one for one, the
\* edges examined, each with the class of the color its target had; the
\* edges examined are the edges whose source is reachable from the root,
\* each once
DfsReportsReachableEdges ==
    /\ Len(trace) = Len(examined)
    /\ \A i \in 1..Len(trace) :
          /\ trace[i][1] = vertices[DfsGraph][examined[i][1]]
          /\ trace[i][2] = vertices[DfsGraph][examined[i][2]]
          /\ trace[i][3] = edge_info(State, DfsGraph, examined[i][1], examined[i][2])
          /\ trace[i][4] = (CASE examined[i][3] = "white" -> VISIT_TREE_EDGES
                              [] examined[i][3] = "gray" -> VISIT_BACK_EDGES
                              [] examined[i][3] = "black" -> VISIT_FORWARD_OR_CROSS_EDGES)
          /\ examined[i][1] \in RootReach
    /\ \A e \in edges[DfsGraph] :
          e.source \in RootReach =>
              Cardinality({i \in 1..Len(examined) :
                              examined[i][1] = e.source /\ examined[i][2] = e.target}) = 1
    /\ \A i \in 1..Len(examined) :
          edge(State, DfsGraph, examined[i][1], examined[i][2])
    /\ \A i, j \in 1..Len(examined) :
          (examined[i][1] = examined[j][1] /\ examined[i][2] = examined[j][2]) => i = j

\* C10: in a depth-first search from root r requesting all edge classes,
\* with a visitor that neither prunes nor mutates the graph, every edge whose
\* source is reachable from r is reported exactly once, with the class given
\* by the color of its target when it is examined (tree for white, back for
\* gray, forward-or-cross for black), and no other edge is reported.
C10_DfsReportsEveryReachableEdge ==
    (pc = "done" /\ view = "direct" /\ mode = VISIT_ALL_EDGES /\ vprunes = 0)
        => DfsReportsReachableEdges

\* the same when "@prune" is not set at the time the search starts
DfsReportsEveryReachableEdgeUnlessPruned ==
    (pc = "done" /\ view = "direct" /\ mode = VISIT_ALL_EDGES /\ vprunes = 0
        /\ ~prune_at_start)
        => DfsReportsReachableEdges

\* a search whose visitor did not prune has returned after reporting a tree
\* edge, a back edge and a forward-or-cross edge
DfsAllClassesReported ==
    /\ pc = "done" /\ view = "direct" /\ mode = VISIT_ALL_EDGES
    /\ vprunes = 0 /\ ~prune_at_start
    /\ \A what \in {VISIT_TREE_EDGES, VISIT_BACK_EDGES, VISIT_FORWARD_OR_CROSS_EDGES} :
          \E i \in 1..Len(trace) : trace[i][4] = what

\* the descriptors on a cycle of the graph (a self-loop is a cycle)
OnCycle(v) ==
    v \in ReachableFrom({}, {e.target : e \in {x \in edges[DfsGraph] : x.source = v}})

CycleReachable == \E v \in RootReach : OnCycle(v)

GraphAcyclic == \A v \in DfsHandles : ~OnCycle(v)

ReportedWith(what) == {i \in 1..Len(trace) : trace[i][4] = what}

\* a back edge is reported exactly when a cycle can be reached from the
\* root, and on an acyclic graph only tree and forward-or-cross edges are
\* reported, every reachable vertex but the root being the target of one
\* tree edge
DfsBackEdgeIffCycle ==
    /\ (ReportedWith(VISIT_BACK_EDGES) # {}) <=> CycleReachable
    /\ GraphAcyclic =>
          /\ \A i \in 1..Len(trace) :
                trace[i][4] \in {VISIT_TREE_EDGES, VISIT_FORWARD_OR_CROSS_EDGES}
          /\ \A v \in RootReach :
                Cardinality({i \in ReportedWith(VISIT_TREE_EDGES) :
                                trace[i][2] = vertices[DfsGraph][v]})
                    = IF vertices[DfsGraph][v] = root THEN 0 ELSE 1

\* C11: a depth-first search requesting all edge classes reports a back edge
\* if and only if a cycle (self-loops included) is reachable from the root;
\* on an acyclic graph every reported edge is a tree edge or a
\* forward-or-cross edge and each vertex reachable from the root other than
\* the root is the target of exactly one tree edge.
C11_DfsBackEdgeIffCycle ==
    (pc = "done" /\ view = "direct" /\ mode = VISIT_ALL_EDGES /\ vprunes = 0)
        => DfsBackEdgeIffCycle

\* the same when "@prune" is not set at the time the search starts
DfsBackEdgeIffCycleUnlessPruned ==
    (pc = "done" /\ view = "direct" /\ mode = VISIT_ALL_EDGES /\ vprunes = 0
        /\ ~prune_at_start)
        => DfsBackEdgeIffCycle

\* the search of A->B, A->C, B->C from A has returned: two tree edges, one
\* forward-or-cross edge, no back edge
DfsTwoTreeOneForward ==
    /\ pc = "done" /\ view = "direct" /\ mode = VISIT_ALL_EDGES
    /\ vprunes = 0 /\ ~prune_at_start
    /\ \E a, b, c \in DfsHandles :
          /\ {<<e.source, e.target>> : e \in edges[DfsGraph]}
                = {<<a, b>>, <<a, c>>, <<b, c>>}
          /\ Cardinality({a, b, c}) = 3
          /\ root = vertices[DfsGraph][a]
    /\ Cardinality(ReportedWith(VISIT_TREE_EDGES)) = 2
    /\ Cardinality(ReportedWith(VISIT_FORWARD_OR_CROSS_EDGES)) = 1
    /\ ReportedWith(VISIT_BACK_EDGES) = {}

\* ------------------------------------- a whole search, block doing nothing
\* graph_each_dfs with a block that returns at once, as a function of the
\* graph, the arguments and "@prune": the search when it starts ...
each_dfs_enter(s, g, vw, r, flag) ==
    LET found == bgl_rb_to_vertex(s, r, g)
        t == search_terminator(flag)
    IN  IF ~found.exists
        THEN [colors |-> EmptyMap, stack |-> <<>>, trace |-> <<>>, prune |-> flag]
        ELSE [colors |-> MapPut(EmptyMap, found.v, "gray"),
              stack  |-> <<dfs_discover(s, g, vw, found.v, t.result)>>,
              trace  |-> <<>>,
              prune  |-> t.prune]

\* ... one turn of the loop of depth_first_visit ...
each_dfs_turn(s, g, vw, m, d) ==
    LET top == d.stack[Len(d.stack)]
        out == view_out_edges(s, g, vw, top.u)
    IN  IF top.ei > Len(out)
        THEN [d EXCEPT !.colors = MapPut(d.colors, top.u, "black"),
                       !.stack = SubSeq(d.stack, 1, Len(d.stack) - 1)]
        ELSE LET e       == out[top.ei]
                 v_color == color_get(d.colors, e.target)
                 what    == dfs_edge_class(v_color)
                 t       == search_terminator(d.prune)
                 rest    == [d.stack EXCEPT ![Len(d.stack)].ei = top.ei + 1]
                 called  == IF yield_edge(what, m)
                            THEN Append(d.trace, yield_values(s, g, e, what))
                            ELSE d.trace
             IN  IF v_color = "white"
                 THEN [colors |-> MapPut(d.colors, e.target, "gray"),
                       stack  |-> Append(rest, dfs_discover(s, g, vw, e.target, t.result)),
                       trace  |-> called,
                       prune  |-> t.prune]
                 ELSE [d EXCEPT !.stack = rest, !.trace = called]

\* ... and the search up to its return
RECURSIVE each_dfs_loop(_, _, _, _, _)
each_dfs_loop(s, g, vw, m, d) ==
    IF d.stack = <<>> THEN d
    ELSE each_dfs_loop(s, g, vw, m, each_dfs_turn(s, g, vw, m, d))

each_dfs_run(s, g, vw, r, m, flag) ==
    each_dfs_loop(s, g, vw, m, each_dfs_enter(s, g, vw, r, flag))

\* is the class what (one bit) in the mask m
InMask(what, m) == (m \div what) % 2 = 1

DfsClasses == {VISIT_TREE_EDGES, VISIT_BACK_EDGES, VISIT_FORWARD_OR_CROSS_EDGES}

\* the callbacks of the sequence cb whose class is in the mask m
FilterByMask(cb, m) == SelectSeq(cb, LAMBDA c : c[4] \in DfsClasses /\ InMask(c[4], m))

\* C12: the edge-class mask only filters callbacks, it does not change the
\* traversal: for every mask m and a visitor that neither prunes nor mutates,
\* the callbacks of each_dfs(root, m) are exactly the callbacks of
\* each_dfs(root, ALL), made from the same state, whose class is in m, in the
\* same order, and the class passed is always a single one of the three
\* classes.
C12_MaskOnlyFilters ==
    (pc = "done" /\ kind = "dfs" /\ vprunes = 0)
        => /\ trace = FilterByMask(
                         each_dfs_run(State, DfsGraph, view, root, VISIT_ALL_EDGES,
                                      prune_at_start).trace, mode)
           /\ \A i \in 1..Len(trace) : trace[i][4] \in DfsClasses

\* a search asking for some but not all classes has returned, having left
\* out callbacks the search for all classes makes and made others
C12_Witness ==
    /\ pc = "done" /\ kind = "dfs" /\ vprunes = 0
    /\ mode \notin {0, VISIT_ALL_EDGES}
    /\ trace # <<>>
    /\ Len(trace) < Len(each_dfs_run(State, DfsGraph, view, root, VISIT_ALL_EDGES,
                                     prune_at_start).trace)

\* the edges of the view, as (source, target) pairs
ViewEdges(vw) ==
    LET direct == {<<e.source, e.target>> : e \in edges[DfsGraph]}
        reverse == {<<e.target, e.source>> : e \in edges[DfsGraph]}
    IN  IF vw = "direct" THEN direct
        ELSE IF vw = "reverse" THEN reverse
        ELSE direct \cup reverse

\* the descriptors reachable in the view from the descriptors of frontier
\* along paths that do not leave a descriptor of the set closed
RECURSIVE ViewReach(_, _, _, _)
ViewReach(vw, closed, seen, frontier) ==
    IF frontier = {} THEN seen
    ELSE LET open == frontier \ closed
             next == {p[2] : p \in {q \in ViewEdges(vw) : q[1] \in open}}
         IN  ViewReach(vw, closed, seen \cup frontier, next \ (seen \cup frontier))

RootDescriptor == rb_to_vertex(State, root, DfsGraph)[1]

\* the info of the edge the view shows from u to w
ViewInfo(vw, u, w) ==
    IF vw = "reverse" \/ (vw = "undirected" /\ ~edge(State, DfsGraph, u, w))
    THEN edge_info(State, DfsGraph, w, u)
    ELSE edge_info(State, DfsGraph, u, w)

\* the callback of every edge examined, were the mask VISIT_ALL_EDGES
ExaminedCallbacks ==
    [i \in 1..Len(examined) |->
        <<vertices[DfsGraph][examined[i][1]], vertices[DfsGraph][examined[i][2]],
          ViewInfo(view, examined[i][1], examined[i][2]),
          CASE examined[i][3] = "white" -> VISIT_TREE_EDGES
            [] examined[i][3] = "gray" -> VISIT_BACK_EDGES
            [] examined[i][3] = "black" -> VISIT_FORWARD_OR_CROSS_EDGES>>]

\* the block called prune once, in the callback of the tree edge that
\* discovered PrunedVertex
PrunedOnDiscovery ==
    /\ kind = "dfs"
    /\ vprunes = 1
    /\ Len(pruned_at) = 1
    /\ examined[pruned_at[1]][3] = "white"

PrunedVertex == examined[pruned_at[1]][2]

\* C13: in a depth-first search from root R, when the visitor calls prune
\* while handling the tree edge that discovers vertex X, no edge leaving X
\* is reported and no vertex reachable only through X is visited, while the
\* remaining edges of X's parent and of the other discovered vertices are
\* still examined and reported.
C13_PruneSkipsOneSubtree ==
    (pc = "done" /\ PrunedOnDiscovery)
        => LET X       == PrunedVertex
               around  == ViewReach(view, {X}, {}, {RootDescriptor})
           IN  /\ \A i \in 1..Len(examined) : examined[i][1] # X
               /\ \A i \in 1..Len(trace) : trace[i][1] # vertices[DfsGraph][X]
               /\ DOMAIN colors = around
               /\ \A v \in DOMAIN colors : colors[v] = "black"
               /\ \A p \in ViewEdges(view) :
                     (p[1] \in around /\ p[1] # X) =>
                         Cardinality({i \in 1..Len(examined) :
                             examined[i][1] = p[1] /\ examined[i][2] = p[2]}) = 1
               /\ trace = FilterByMask(ExaminedCallbacks, mode)

\* such a search has returned: X has an out-edge to a vertex that was never
\* discovered, and edges were examined after the prune
C13_Witness ==
    /\ pc = "done" /\ PrunedOnDiscovery
    /\ \E p \in ViewEdges(view) :
          p[1] = PrunedVertex /\ color_get(colors, p[2]) = "white"
    /\ Len(trace) > 1
    /\ Len(examined) > pruned_at[1]

\* the mask m holds exactly one of BACK and FORWARD_OR_CROSS
OneNonTreeHalf(m) ==
    InMask(VISIT_BACK_EDGES, m) # InMask(VISIT_FORWARD_OR_CROSS_EDGES, m)

C15_Post(m) ==
    IF OneNonTreeHalf(m)
    THEN /\ pc' = "error"
         /\ trace' = <<>>
         /\ examined' = <<>>
         /\ UNCHANGED <<StoreVars, prune>>
    ELSE pc' \in {"run", "done"}

\* C15: a breadth-first search whose mask contains exactly one of BACK and
\* FORWARD_OR_CROSS fails with an invalid-argument error before any visitor
\* callback is invoked (the call that raised makes no callback afterwards
\* either); a mask containing both of them or neither of them is accepted.
C15_BfsRejectsHalfNonTree ==
    /\ [](pc = "error" => (kind = "bfs" /\ trace = <<>> /\ stack = <<>> /\ queue = <<>>))
    /\ [][\A vw \in BfsViews, r \in DfsValues, m \in DfsModes :
            (kind' = "bfs" /\ view' = vw /\ root' = r /\ mode' = m /\ EachBfs(vw, r, m))
                => C15_Post(m)]_vars

\* each_bfs has raised for the mask BACK, from a root that is in the graph
\* and has an out-edge
C15_Witness ==
    /\ pc = "error"
    /\ mode = VISIT_BACK_EDGES
    /\ graph_include_p(State, DfsGraph, root)
    /\ \E e \in edges[DfsGraph] : vertices[DfsGraph][e.source] = root

\* the step is a search started from the object r with the mask m
SearchStarts(vw, r, m) ==
    /\ view' = vw /\ root' = r /\ mode' = m
    /\ \/ kind' = "dfs" /\ EachDfs(vw, r, m)
       \/ kind' = "bfs" /\ EachBfs(vw, r, m)

\* C16: starting a depth-first or breadth-first traversal (forward, reverse
\* or undirected) from a root that is not in the graph is a no-op and not an
\* error: for every edge-class mask, no visitor callback is invoked, no
\* error is raised, and the graph, the membership indices and the prune flag
\* are unchanged.
C16_AbsentRootIsNoOp ==
    [][\A vw \in BfsViews, r \in DfsValues, m \in DfsModes :
          (~graph_include_p(State, DfsGraph, r) /\ SearchStarts(vw, r, m))
              => /\ pc' = "done"
                 /\ trace' = <<>>
                 /\ UNCHANGED <<StoreVars, prune>>]_vars

\* what does hold: a search from a root that is not in the graph makes no
\* callback and leaves the graph, every existing "@__bgl_graphs__" map and
\* "@prune" as they are; each_bfs raises for the masks it rejects, and the
\* searches it accepts return at once
AbsentRootNoCallback ==
    [][\A vw \in BfsViews, r \in DfsValues, m \in DfsModes :
          (~graph_include_p(State, DfsGraph, r) /\ SearchStarts(vw, r, m))
              => /\ pc' = IF kind' = "bfs" /\ OneNonTreeHalf(m) THEN "error" ELSE "done"
                 /\ trace' = <<>>
                 /\ UNCHANGED <<vertices, edges, graph_map, prune>>
                 /\ \A v \in DfsValues :
                       (v # r \/ pc' = "error") => ivar_graph_map'[v] = ivar_graph_map[v]]_vars

\* a search has returned from a root that is not in the graph
AbsentRootSearched ==
    /\ pc = "done"
    /\ ~graph_include_p(State, DfsGraph, root)
    /\ edges[DfsGraph] # {}

\* graph_each_bfs with a block that returns at once, for a mask it accepts,
\* as a function of the graph and the arguments: the search when it starts ...
each_bfs_enter(s, g, vw, r) ==
    LET found == bgl_rb_to_vertex(s, r, g)
    IN  IF ~found.exists
        THEN [colors |-> EmptyMap, stack |-> <<>>, queue |-> <<>>, trace |-> <<>>]
        ELSE [colors |-> MapPut(bfs_initialize(s, g, EmptyMap), found.v, "gray"),
              stack  |-> <<[u |-> found.v, ei |-> 1]>>,
              queue  |-> <<>>,
              trace  |-> <<>>]

\* ... one turn of the loop of breadth_first_visit ...
each_bfs_turn(s, g, vw, m, d) ==
    LET top == d.stack[1]
        out == view_out_edges(s, g, vw, top.u)
    IN  IF top.ei > Len(out)
        THEN IF d.queue = <<>>
             THEN [d EXCEPT !.colors = MapPut(d.colors, top.u, "black"),
                            !.stack = <<>>]
             ELSE [d EXCEPT !.colors = MapPut(d.colors, top.u, "black"),
                            !.stack = <<[u |-> Head(d.queue), ei |-> 1]>>,
                            !.queue = Tail(d.queue)]
        ELSE LET e       == out[top.ei]
                 v_color == color_get(d.colors, e.target)
                 what    == bfs_edge_class(v_color)
                 called  == IF yield_edge(what, m)
                            THEN Append(d.trace, yield_values(s, g, e, what))
                            ELSE d.trace
                 turned  == [d EXCEPT !.stack = <<[top EXCEPT !.ei = top.ei + 1]>>,
                                      !.trace = called]
             IN  IF v_color = "white"
                 THEN [turned EXCEPT !.colors = MapPut(d.colors, e.target, "gray"),
                                     !.queue = Append(d.queue, e.target)]
                 ELSE turned

\* ... and the search up to its return
RECURSIVE each_bfs_loop(_, _, _, _, _)
each_bfs_loop(s, g, vw, m, d) ==
    IF d.stack = <<>> THEN d
    ELSE each_bfs_loop(s, g, vw, m, each_bfs_turn(s, g, vw, m, d))

each_bfs_run(s, g, vw, r, m) ==
    each_bfs_loop(s, g, vw, m, each_bfs_enter(s, g, vw, r))

\* what the search that has just returned would have reported had it been
\* the only one, called from the top level
StandaloneTrace ==
    IF kind = "dfs"
    THEN each_dfs_run(State, DfsGraph, view, root, mode, prune_at_start).trace
    ELSE each_bfs_run(State, DfsGraph, view, root, mode).trace

\* the colors of the search that has just returned, had it been the only one
StandaloneColors ==
    IF kind = "dfs"
    THEN each_dfs_run(State, DfsGraph, view, root, mode, prune_at_start).colors
    ELSE each_bfs_run(State, DfsGraph, view, root, mode).colors

\* C14: color state is per traversal invocation: when a visitor callback of
\* a traversal over graph g starts a nested depth-first or breadth-first
\* traversal over the same g (no pruning, no graph mutation), the outer
\* traversal's vertex colors are not changed by the nested one (the
\* suspended search is untouched while the nested one runs, and gets its
\* colors back as they were), the outer traversal reports the same sequence
\* of edges and classes as it would have without the nested traversal, and
\* the nested traversal reports what a standalone traversal from its root
\* would report.
C14_NestedSearchesIndependent ==
    /\ [](pc = "done" => (trace = StandaloneTrace /\ colors = StandaloneColors))
    /\ [][/\ (outer # <<>> /\ Len(outer') = Len(outer)) => outer' = outer
          /\ Len(outer') < Len(outer) =>
                /\ colors' = outer[Len(outer)].colors
                /\ trace' = outer[Len(outer)].trace]_vars

\* a search whose block started a search from a vertex the outer search had
\* already colored has returned to its caller, after reporting several edges,
\* and the search of the block had reported edges as well
C14_Witness ==
    /\ pc = "run"
    /\ resumed
    /\ outer = <<>>
    /\ Len(trace) > 1
    /\ \E e \in edges[DfsGraph] : e.source # e.target

\* ---------------------------------------------------- claims, components
\* the descriptors and the objects of the graph
ComponentVertices == DOMAIN vertices[DfsGraph]

ObjectOf(v) == vertices[DfsGraph][v]

GraphObjects == {ObjectOf(v) : v \in ComponentVertices}

\* the descriptors joined to u by a path that ignores the direction of the edges
ConnectedTo(u) == ViewReach("undirected", {}, {}, {u})

\* the undirected connected component of the object x of the graph
ComponentOf(x) ==
    LET u == CHOOSE v \in ComponentVertices : ObjectOf(v) = x
    IN  {ObjectOf(w) : w \in ConnectedTo(u)}

\* the sets of the array returned, and how many times a set is in it
ResultSets == {last.value[i] : i \in 1..Len(last.value)}

TimesReturned(set) == Cardinality({i \in 1..Len(last.value) : last.value[i] = set})

\* the seeds of the call, and how many times an object is listed
Seeds == {last.was[i] : i \in 1..Len(last.was)}

TimesListed(x) == Cardinality({i \in 1..Len(last.was) : last.was[i] = x})

\* a vertex no edge joins to another vertex
Isolated(u) == \A e \in edges[DfsGraph] : (e.source = u \/ e.target = u) => e.source = e.target

C18_SeededComponents ==
    (last.op = "components" /\ last.was # <<>> /\ Seeds \subseteq GraphObjects) =>
        /\ ResultSets = {ComponentOf(x) : x \in Seeds}
        /\ \A c \in ResultSets : TimesReturned(c) = 1

\* two seeds in the same component, one seed listed twice, and a component
\* without seed
C18_Witness ==
    /\ last.op = "components"
    /\ Len(last.was) = 2
    /\ Seeds \subseteq GraphObjects
    /\ Len(last.value) = 1
    /\ Cardinality(last.value[1]) = 2
    /\ \E u \in ComponentVertices : ObjectOf(u) \notin last.value[1]

\* C19: components is total over its seeds: every seed that is not in the
\* graph is in the result as its own singleton, whatever the other seeds are
C19_MissingSeedIsSingleton ==
    last.op = "components" =>
        \A x \in Seeds \ GraphObjects : {x} \in ResultSets

\* the seeds that are not in the graph are all returned when no seed is in
\* the graph
MissingSeedsAloneAreSingletons ==
    (last.op = "components" /\ last.was # <<>> /\ Seeds \cap GraphObjects = {}) =>
        last.value = [i \in 1..Len(last.was) |-> {last.was[i]}]

MissingSeedsAloneReturned ==
    /\ last.op = "components"
    /\ Len(last.was) = 2
    /\ Seeds \cap GraphObjects = {}

\* C20: directed_components and reverse_directed_components are total over
\* their seeds: a seed that is not in the graph is in the result as its own
\* singleton once per occurrence in the seed list, and no visit starts from it
C20_DirectedMissingSeedOncePerOccurrence ==
    (last.op \in {"directed_components", "reverse_directed_components"}
        /\ last.was # <<>>) =>
        /\ \A x \in Seeds \ GraphObjects : TimesReturned({x}) = TimesListed(x)
        /\ \A i \in 1..Len(last.res) : last.res[i] \in ComponentVertices
        /\ Len(last.res) <=
               Cardinality({i \in 1..Len(last.was) : last.was[i] \in GraphObjects})

\* a seed that is not in the graph listed twice is returned twice
C20_Witness ==
    /\ last.op \in {"directed_components", "reverse_directed_components"}
    /\ Len(last.was) = 2
    /\ last.was[1] = last.was[2]
    /\ last.was[1] \notin GraphObjects
    /\ last.value = <<{last.was[1]}, {last.was[1]}>>
    /\ last.res = <<>>

\* a seed of the graph and a seed that is not in it: one visit, two sets
DirectedMixedSeeds ==
    /\ last.op \in {"directed_components", "reverse_directed_components"}
    /\ Len(last.was) = 2
    /\ last.was[1] \notin GraphObjects
    /\ last.was[2] \in GraphObjects
    /\ Len(last.res) = 1
    /\ Len(last.value) = 2

\* the view of a directed call
ViewOfCall == IF last.op = "reverse_directed_components" THEN "reverse" ELSE "direct"

DirectedCall == last.op \in {"directed_components", "reverse_directed_components"}

\* the descriptor of an object of the graph
DescriptorOf(x) == CHOOSE v \in ComponentVertices : ObjectOf(v) = x

\* the vertices no edge of the view enters, and what the view reaches from u
ViewRoots(vw) == {v \in ComponentVertices : \A p \in ViewEdges(vw) : p[2] # v}

ViewReachOf(vw, u) == {ObjectOf(w) : w \in ViewReach(vw, {}, {}, {u})}

\* how many of the sets returned hold the object x
TimesCovered(x) == Cardinality({i \in 1..Len(last.value) : x \in last.value[i]})

\* C21: directed_components and reverse_directed_components without seed
\* cover every vertex of the graph exactly once, the vertices of a cycle and
\* the vertices reached only from a cycle included
C21_DirectedCoversEveryVertexOnce ==
    (DirectedCall /\ last.was = <<>>) =>
        \A x \in GraphObjects : TimesCovered(x) = 1

\* without seed a vertex is in one set when a vertex without parent in the
\* view reaches it, and in no set otherwise
DirectedCoversWhatRootsReach ==
    (DirectedCall /\ last.was = <<>>) =>
        \A x \in GraphObjects :
            TimesCovered(x) =
                IF \E r \in ViewRoots(ViewOfCall) : x \in ViewReachOf(ViewOfCall, r)
                THEN 1 ELSE 0

\* a cycle left out beside a vertex that is returned
DirectedCycleNotCovered ==
    /\ DirectedCall
    /\ last.was = <<>>
    /\ Len(last.value) = 1
    /\ \E x \in GraphObjects : TimesCovered(x) = 0

\* the store with every edge of graph g flipped
FlipEdges(s, g) ==
    [s EXCEPT !.edges[g] = {[source |-> e.target, target |-> e.source, info |-> e.info] :
                               e \in s.edges[g]}]

\* the view has one vertex without parent, which reaches every vertex
SingleRootReachesAll(vw) ==
    \E r \in ComponentVertices :
        /\ ViewRoots(vw) = {r}
        /\ ViewReachOf(vw, r) = GraphObjects

\* C22: directed_components without seed starts from the vertices without
\* incoming edge: when one vertex has no incoming edge and reaches every
\* vertex, the result is one set holding every vertex, and
\* reverse_directed_components returns the same on the graph with every
\* edge flipped
C22_DirectedStartsFromRoots ==
    (DirectedCall /\ last.was = <<>> /\ SingleRootReachesAll(ViewOfCall)) =>
        /\ last.value = <<GraphObjects>>
        /\ last.op = "directed_components" =>
               graph_reverse_directed_components(FlipEdges(State, DfsGraph), DfsGraph,
                                                 <<>>).result = last.value

\* the chain of three vertices
C22_Witness ==
    /\ last.op = "directed_components"
    /\ last.was = <<>>
    /\ Cardinality(edges[DfsGraph]) = 2
    /\ \E a, b, c \in ComponentVertices :
           /\ Cardinality({a, b, c}) = 3
           /\ ViewEdges("direct") = {<<a, b>>, <<b, c>>}
    /\ last.value = <<GraphObjects>>

ReverseChainReturned ==
    /\ last.op = "reverse_directed_components"
    /\ last.was = <<>>
    /\ SingleRootReachesAll("reverse")
    /\ Cardinality(edges[DfsGraph]) = 2
    /\ last.value = <<GraphObjects>>

MissingSeedTwiceReturned ==
    /\ last.op = "components"
    /\ Len(last.was) = 2
    /\ last.was[1] \notin GraphObjects
    /\ last.value = <<{last.was[1]}, {last.was[1]}>>

\* C24: with seeds, every vertex the view reaches from a seed of the graph is
\* in the same returned set as the seed, whatever the order of the seeds
C24_SeedReachInSameSet ==
    (DirectedCall /\ last.was # <<>>) =>
        \A x \in Seeds \cap GraphObjects :
            \E c \in ResultSets :
                x \in c /\ ViewReachOf(ViewOfCall, DescriptorOf(x)) \subseteq c

\* the set of the first seed of the list holds everything the seed reaches
FirstSeedReachInSameSet ==
    (DirectedCall /\ last.was # <<>> /\ last.was[1] \in GraphObjects) =>
        last.value[1] = ViewReachOf(ViewOfCall, DescriptorOf(last.was[1]))

FirstSeedReachReturned ==
    /\ DirectedCall
    /\ Len(last.was) = 2
    /\ last.was[1] \in GraphObjects
    /\ Cardinality(last.value[1]) = 3

\* ------------------------------------------ claims, iterations and queries
\* the elements of the sequence seq, and seq holding each of them once
Range(seq) == {seq[i] : i \in 1..Len(seq)}

NoRepeat(seq) == \A i, j \in 1..Len(seq) : i # j => seq[i] # seq[j]

\* C25: vertex.each_graph gives the block every graph the vertex was in
\* when the iteration started exactly once, also when the block removes the
\* vertex from the graph it is given; when every call of the block does so
\* the vertex is in no graph afterwards
C25_EachGraphToleratesRemoval ==
    last.op = "each_graph" =>
        /\ Range(last.res) = last.was.before
        /\ NoRepeat(last.res)
        /\ (\A g \in last.was.before : last.was.removes[g]) =>
               /\ DOMAIN graph_map[last.was.self] = {}
               /\ \A g \in Graphs : ~graph_include_p(State, g, last.was.self)
                                    /\ last.was.self \notin graph_vertices(State, g)

\* a vertex of two graphs removed from both by the block
C25_Witness ==
    /\ last.op = "each_graph"
    /\ Cardinality(last.was.before) = 2
    /\ \A g \in Graphs : last.was.removes[g]
    /\ Len(last.res) = 2
    /\ DOMAIN graph_map[last.was.self] = {}

\* the block removes the vertex from the first graph only
EachGraphRemovesFirstOnly ==
    /\ last.op = "each_graph"
    /\ Len(last.res) = 2
    /\ last.was.removes[last.res[1]]
    /\ ~last.was.removes[last.res[2]]
    /\ DOMAIN graph_map[last.was.self] = {last.res[2]}

\* C26: each_vertex whose block removes the vertex it is given, and each_edge
\* whose block unlinks the edge it is given, give the block every vertex
\* (every edge, with source, target and info) that was there when the
\* iteration started exactly once and leave the graph without vertices
\* (without edges)
C26_EachVertexEachEdgeTolerateRemoval ==
    /\ last.op = "each_vertex" =>
          /\ Range(last.res) = last.was.before
          /\ NoRepeat(last.res)
          /\ (\A v \in last.was.before : last.was.removes[v]) =>
                 /\ vertices[last.was.self] = EmptyMap
                 /\ edges[last.was.self] = {}
    /\ last.op = "each_edge" =>
          /\ Range(last.res) = last.was.before
          /\ NoRepeat(last.res)
          /\ (\A i \in DOMAIN last.was.removes : last.was.removes[i]) =>
                 edges[last.was.self] = {}

\* two edges, both unlinked by the block
C26_Witness ==
    /\ last.op = "each_edge"
    /\ Cardinality(last.was.before) = 2
    /\ \A i \in DOMAIN last.was.removes : last.was.removes[i]
    /\ Len(last.res) = 2
    /\ edges[last.was.self] = {}

\* two linked vertices, both removed by the block
EachVertexRemovesAll ==
    /\ last.op = "each_vertex"
    /\ Cardinality(last.was.before) = 2
    /\ \A v \in Values : last.was.removes[v]
    /\ Len(last.res) = 2
    /\ vertices[last.was.self] = EmptyMap

\* the vertex v of graph g has no edge coming in (going out when direct)
NoEdgeAt(g, v, direct) ==
    \A e \in edges[g] :
        IF direct THEN e.source # graph_map[v][g] ELSE e.target # graph_map[v][g]

\* what root? (leaf? when direct) of v is to answer, in graph g or without
\* graph
RootLeafAnswer(v, g, direct) ==
    IF g # Qnil
    THEN ~graph_include_p(State, g, v) \/ NoEdgeAt(g, v, direct)
    ELSE \A x \in DOMAIN graph_map[v] : NoEdgeAt(x, v, direct)

RootLeafQueries == {"graph_root_p", "graph_leaf_p", "vertex_root_p", "vertex_leaf_p"}

\* the answers of root? and leaf?
RootLeafAnswers ==
    last.op \in RootLeafQueries =>
        last.value = RootLeafAnswer(last.res.self, last.res.graph,
                                    last.op \in {"graph_leaf_p", "vertex_leaf_p"})

\* C27: root? is true iff the vertex has no incoming edge in the graph, and
\* true when the vertex is not in the graph; without graph it is true iff the
\* vertex has no incoming edge in every graph it is in; leaf? is the same with
\* outgoing edges; the queries change no state
C27_RootLeafQueriesChangeNothing ==
    last.op \in RootLeafQueries =>
        /\ last.value = RootLeafAnswer(last.res.self, last.res.graph,
                                       last.op \in {"graph_leaf_p", "vertex_leaf_p"})
        /\ ivar_graph_map = last.was

\* with a graph the queries leave the "@__bgl_graphs__" maps as they were
RootLeafInGraphChangeNothing ==
    (last.op \in RootLeafQueries /\ last.res.graph # Qnil) => ivar_graph_map = last.was

\* a vertex that is a root in one of its graphs and not in the other
RootInOneGraphOnly ==
    /\ last.op = "vertex_root_p"
    /\ last.res.graph = Qnil
    /\ last.value = FALSE
    /\ \E g \in DOMAIN graph_map[last.res.self] : NoEdgeAt(g, last.res.self, FALSE)

\* some graph holds p and v and the edge from p to v
ParentInSomeGraph(v, p) ==
    \E g \in Graphs :
        /\ graph_include_p(State, g, p)
        /\ graph_include_p(State, g, v)
        /\ graph_linked_p(State, g, p, v)

\* C28: v.parent_vertex?(p, g) is g.linked?(p, v); without graph it is true
\* iff some graph holds p and v and the edge from p to v; v.child_vertex?(c)
\* is c.parent_vertex?(v); related_vertex? is the disjunction of the two and
\* is symmetric
C28_ParentChildRelated ==
    LET v == last.res.self
        o == last.res.other
        g == last.res.graph
    IN  /\ last.op = "vertex_parent_p" =>
              last.value = IF g # Qnil THEN graph_linked_p(State, g, o, v)
                           ELSE ParentInSomeGraph(v, o)
        /\ last.op = "vertex_child_p" =>
              /\ last.value = vertex_parent_p(State, o, v, g).result
              /\ last.value = IF g # Qnil THEN graph_linked_p(State, g, v, o)
                              ELSE ParentInSomeGraph(o, v)
        /\ last.op = "vertex_related_p" =>
              /\ last.value = (vertex_parent_p(State, v, o, g).result
                               \/ vertex_child_p(State, v, o, g).result)
              /\ last.value = vertex_related_p(State, o, v, g).result

\* p is a parent of v in one graph of the two they are in, and v is not a
\* parent of p
C28_Witness ==
    /\ last.op = "vertex_parent_p"
    /\ last.res.graph = Qnil
    /\ last.res.self # last.res.other
    /\ last.value = TRUE
    /\ \A g \in Graphs : /\ graph_include_p(State, g, last.res.self)
                         /\ graph_include_p(State, g, last.res.other)
                         /\ ~graph_linked_p(State, g, last.res.self, last.res.other)
    /\ \E g \in Graphs : ~graph_linked_p(State, g, last.res.other, last.res.self)

RelatedThroughChild ==
    /\ last.op = "vertex_related_p"
    /\ last.value = TRUE
    /\ ~vertex_parent_p(State, last.res.self, last.res.other, last.res.graph).result

\* C29: in_degree(v) is the number of vertices u with linked?(u, v),
\* out_degree(v) the number of vertices w with linked?(v, w), a self-loop
\* counting once in each; both are 0 when v is not in the graph
C29_Degrees ==
    LET v == last.res.self
        g == last.res.graph
    IN  /\ last.op = "in_degree" =>
              /\ last.value = Cardinality({u \in Values : graph_linked_p(State, g, u, v)})
              /\ ~graph_include_p(State, g, v) => last.value = 0
        /\ last.op = "out_degree" =>
              /\ last.value = Cardinality({w \in Values : graph_linked_p(State, g, v, w)})
              /\ ~graph_include_p(State, g, v) => last.value = 0

\* a vertex with a self-loop and an edge from another vertex
C29_Witness ==
    /\ last.op = "in_degree"
    /\ last.value = 2
    /\ graph_linked_p(State, last.res.graph, last.res.self, last.res.self)
    /\ graph_out_degree(State, last.res.graph, last.res.self) = 1

DegreeOfAbsentVertex ==
    /\ last.op \in {"in_degree", "out_degree"}
    /\ ~graph_include_p(State, last.res.graph, last.res.self)
    /\ edges[last.res.graph] # {}
    /\ last.value = 0

\* ------------------------------------------------ claims, reverse view
\* a search on the reverse view is in progress or has just returned
ReverseSearch == kind \in {"dfs", "bfs"} /\ view = "reverse"

\* the callbacks of the forward search from the same root, with the same
\* mask and the same "@prune", on the graph with every edge flipped
FlippedForwardTrace ==
    IF kind = "dfs"
    THEN each_dfs_run(FlipEdges(State, DfsGraph), DfsGraph, "direct", root, mode,
                      prune_at_start).trace
    ELSE each_bfs_run(FlipEdges(State, DfsGraph), DfsGraph, "direct", root, mode).trace

\* every callback made gives a stored edge from its target to its source,
\* with the info of that edge
ReportsStoredEdgesFlipped ==
    \A i \in 1..Len(trace) :
        \E e \in edges[DfsGraph] :
            /\ vertices[DfsGraph][e.source] = trace[i][2]
            /\ vertices[DfsGraph][e.target] = trace[i][1]
            /\ e.info = trace[i][3]

\* the objects the search reached, and the objects from which the root is
\* reachable in the graph
ObjectsReached == {root} \cup {trace[i][2] : i \in 1..Len(trace)}

ObjectsReachingRoot ==
    {vertices[DfsGraph][u] : u \in ViewReach("reverse", {}, {}, {RootDescriptor})}

\* a search on the reverse view for every class, with a block that does not
\* prune, has returned from a root of the graph
ReverseSearchForAllReturned ==
    /\ ReverseSearch
    /\ pc = "done"
    /\ vprunes = 0
    /\ mode = VISIT_ALL_EDGES
    /\ graph_include_p(State, DfsGraph, root)

\* C30: a traversal over the reverse view behaves as the forward traversal
\* of the graph with every edge flipped: each (source, target, info) reported
\* is a stored edge from target to source with that info, the vertices
\* reached are exactly the vertices from which the root is reachable, and
\* the store is not modified
C30_ReverseIsFlippedForward ==
    /\ [](ReverseSearch => ReportsStoredEdgesFlipped)
    /\ []((ReverseSearch /\ pc = "done" /\ vprunes = 0) => trace = FlippedForwardTrace)
    /\ [](ReverseSearchForAllReturned => ObjectsReached = ObjectsReachingRoot)
    /\ [][view' = "reverse" => UNCHANGED StoreVars]_vars

\* what holds of the reverse view: the callbacks are those of the forward
\* search on the flipped graph started with the same "@prune", the vertices
\* reached are the vertices from which the root is reachable when "@prune"
\* was clear at the start of a depth-first search, and the graph and the
\* maps that exist are not modified
ReverseIsFlippedForwardFromSameState ==
    /\ [](ReverseSearch => ReportsStoredEdgesFlipped)
    /\ []((ReverseSearch /\ pc = "done" /\ vprunes = 0) => trace = FlippedForwardTrace)
    /\ []((ReverseSearchForAllReturned /\ (kind = "bfs" \/ ~prune_at_start))
              => ObjectsReached = ObjectsReachingRoot)
    /\ [][view' = "reverse" =>
            /\ UNCHANGED <<vertices, edges, graph_map>>
            /\ \A v \in DfsValues :
                  ivar_graph_map[v] => ivar_graph_map'[v]]_vars

\* a reverse search has reported two edges or more
ReverseSearchReturned ==
    /\ ReverseSearchForAllReturned
    /\ ~prune_at_start
    /\ Len(trace) >= 2
    /\ Cardinality(ObjectsReached) >= 2

\* ------------------------------------------------ claims, undirected view
StoredInEdges(u) == {e \in edges[DfsGraph] : e.target = u}
StoredOutEdges(u) == {e \in edges[DfsGraph] : e.source = u}

\* the descriptors of the sequence r that are flagged as f
Flagged(r, f) == {r[i][1] : i \in {j \in 1..Len(r) : r[j][2] = f}}

\* C31: in the undirected view the out-edges and the in-edges of u are the
\* stored in-edges of u flagged as flipped, followed by the stored out-edges
\* of u flagged as stored, each once; source() of every descriptor is u and
\* target() the other endpoint of the stored edge; the neighbours of u are
\* its stored successors and predecessors; out_degree(u) = in_degree(u) is
\* the stored in-degree plus the stored out-degree
C31_UndirectedView ==
    LET u == last.was
    IN  /\ last.op \in {"out_edges", "in_edges"} =>
              /\ Flagged(last.res, TRUE) = StoredInEdges(u)
              /\ Flagged(last.res, FALSE) = StoredOutEdges(u)
              /\ Len(last.res) = Cardinality(StoredInEdges(u))
                                    + Cardinality(StoredOutEdges(u))
              /\ \A i, j \in 1..Len(last.res) :
                    (last.res[i][2] /\ ~last.res[j][2]) => i < j
              /\ \A i \in 1..Len(last.res) :
                    /\ last.value[i].source = u
                    /\ last.value[i].target =
                          (IF last.res[i][2] THEN last.res[i][1].source
                           ELSE last.res[i][1].target)
        /\ last.op = "adjacent_vertices" =>
              Range(last.res) = {e.target : e \in StoredOutEdges(u)}
                                   \cup {e.source : e \in StoredInEdges(u)}
        /\ last.op \in {"undirected_out_degree", "undirected_in_degree"} =>
              last.value = Cardinality(StoredInEdges(u))
                              + Cardinality(StoredOutEdges(u))

\* the view was asked for the edges of a vertex with a self-loop, another
\* in-edge and another out-edge
C31_Witness ==
    /\ last.op = "out_edges"
    /\ \E i, j, k \in 1..Len(last.res) :
          /\ last.res[i][2] /\ last.res[i][1].source # last.was
          /\ ~last.res[j][2] /\ last.res[j][1].target # last.was
          /\ last.res[k][1].source = last.res[k][1].target

\* the edges the view gives the searches are the edges the descriptors of
\* the undirected view stand for
UndirectedSearchEdges ==
    last.op = "out_edges" =>
        last.value = view_out_edges(State, DfsGraph, "undirected", last.was)

\* ----------------------------------------------------- claims, ValueSet
\* the elements the receiver and the argument of the last call had
SelfBefore == last.was[last.res.self]
OtherBefore == last.was[last.res.other]

\* C32: union, intersection and difference return a new set and leave both
\* sets as they were; x is in S.union(T) exactly when it is in S or in T;
\* S.intersection(T) == T.intersection(S) and holds exactly the common
\* elements; S.difference(T) holds exactly the elements of S not in T and
\* S.difference(S) is empty; == is set equality
C32_SetAlgebra ==
    /\ last.op \in {"union", "intersection", "difference"} =>
          /\ last.res.returned \notin SetIds
          /\ value_sets = last.was
    /\ last.op = "union" =>
          \A x \in SetValues :
              value_set_include_p(last.value, x)
                  = (value_set_include_p(SelfBefore, x)
                        \/ value_set_include_p(OtherBefore, x))
    /\ last.op = "intersection" =>
          /\ value_set_equal(last.value, value_set_intersection(OtherBefore, SelfBefore))
          /\ last.value = SelfBefore \cap OtherBefore
    /\ last.op = "difference" =>
          /\ last.value = SelfBefore \ OtherBefore
          /\ last.res.self = last.res.other => value_set_empty_p(last.value)
    /\ last.op = "==" => last.value = (SelfBefore = OtherBefore)

\* the union of two sets that share an element and have each an element of
\* their own was taken
C32_Witness ==
    /\ last.op = "union"
    /\ SelfBefore \cap OtherBefore # {}
    /\ SelfBefore \ OtherBefore # {}
    /\ OtherBefore \ SelfBefore # {}

\* S.difference(S) of a set that has elements was taken
DifferenceWithItself ==
    /\ last.op = "difference"
    /\ last.res.self = last.res.other
    /\ SelfBefore # {}

\* C33: the scan of S.intersects?(T) ends, after at most as many increments
\* as the two sets have elements, and returns true exactly when
\* S.intersection(T) is not empty (false when a set is empty), changing
\* neither set; S.include_all?(T) returns true exactly when every element of
\* T is in S
C33_IntersectsIncludeAll ==
    /\ last.op = "intersects?" =>
          /\ last.value = ~value_set_empty_p(value_set_intersection(SelfBefore, OtherBefore))
          /\ last.value = (SelfBefore \cap OtherBefore # {})
          /\ (SelfBefore = {} \/ OtherBefore = {}) => last.value = FALSE
          /\ last.res.arg <= Cardinality(SelfBefore) + Cardinality(OtherBefore)
          /\ value_sets = last.was
    /\ last.op = "include_all?" =>
          /\ last.value = (OtherBefore \subseteq SelfBefore)
          /\ value_sets = last.was

\* intersects? found a common element after stepping over an element of
\* each set
C33_Witness ==
    /\ last.op = "intersects?"
    /\ last.value = TRUE
    /\ last.res.arg >= 2
    /\ SelfBefore # OtherBefore

\* include_all? was asked with a proper subset, and with a set that is not
\* a subset
IncludeAllOfSubset ==
    /\ last.op = "include_all?"
    /\ last.value = TRUE
    /\ OtherBefore # {} /\ OtherBefore # SelfBefore

IncludeAllOfOther ==
    /\ last.op = "include_all?"
    /\ last.value = FALSE
    /\ SelfBefore \cap OtherBefore # {}

InPlaceOps == {"intersection!", "difference!", "merge"}

InPlaceWithEmpty ==
    \E op \in InPlaceOps : last.op = op /\ OtherBefore = {} /\ SelfBefore # {}

InPlaceWithDisjoint ==
    \E op \in InPlaceOps :
        /\ last.op = op
        /\ OtherBefore # {} /\ SelfBefore # {}
        /\ SelfBefore \cap OtherBefore = {}

InPlaceWithEqual ==
    \E op \in InPlaceOps : last.op = op /\ OtherBefore = SelfBefore /\ SelfBefore # {}

InPlaceWithSuperset ==
    \E op \in InPlaceOps :
        /\ last.op = op
        /\ SelfBefore \subseteq OtherBefore
        /\ SelfBefore # OtherBefore /\ SelfBefore # {}

\* C35: each, with a block that deletes the element it is given, gives the
\* block every element the set had when the iteration started exactly once;
\* delete_if gives the block every element exactly once and leaves exactly
\* the elements for which the block returned false
C35_EachDeleteIf ==
    /\ last.op \in {"each", "delete_if"} =>
          /\ Range(last.value) = SelfBefore
          /\ NoRepeat(last.value)
          /\ value_sets[last.res.self] = {x \in SelfBefore : ~last.res.arg[x]}
          /\ \A id \in SetIds \ {last.res.self} : value_sets[id] = last.was[id]

\* each ran on a set of several elements with a block that deleted every
\* element it was given
C35_Witness ==
    /\ last.op = "each"
    /\ Cardinality(SelfBefore) >= 2
    /\ \A x \in SelfBefore : last.res.arg[x]
    /\ value_sets[last.res.self] = {}

\* delete_if deleted the first element only
DeleteIfFirstOnly ==
    /\ last.op = "delete_if"
    /\ Cardinality(SelfBefore) >= 2
    /\ value_sets[last.res.self] = SelfBefore \ {Begin(SelfBefore)}

\* ------------------------------------------------ claims, the prune flag
\* the positions in "examined" of the edges that discovered their target
Discoveries == {i \in 1..Len(examined) : examined[i][3] = "white"}

\* "@prune" was set when the target of the i-th examined edge was
\* discovered: the callback of that edge called prune, or the callback of an
\* earlier edge did and no vertex was discovered since
FlagAtDiscovery(i) ==
    \E k \in 1..Len(pruned_at) :
        LET j == pruned_at[k]
        IN  /\ j <= i
            /\ \A d \in Discoveries : ~(j <= d /\ d < i)

\* the vertices of the running depth-first search that were discovered while
\* "@prune" was set
DiscoveredWhilePruning ==
    (IF prune_at_start /\ rb_to_vertex(State, root, DfsGraph)[2]
     THEN {RootDescriptor} ELSE {})
        \cup {examined[i][2] : i \in {d \in Discoveries : FlagAtDiscovery(d)}}

\* a step of the depth-first search that discovers a vertex, the vertex, and
\* the value "@prune" has when search_terminator reads it
DfsDiscovery == kind' = "dfs" /\ pc' = "run" /\ Len(stack') = Len(stack) + 1
Discovered == stack'[Len(stack')]
FlagAtCheck == prune \/ Len(pruned_at') > Len(pruned_at)

\* C36: in a depth-first search, whenever a vertex is discovered while the
\* prune flag is set, whichever callback set it, none of the out-edges of the
\* vertex is examined, the vertex is still finished (Black), and the check
\* clears the flag; a vertex discovered while the flag is clear is expanded,
\* so a prune request keeps one vertex at most from being expanded
C36_PruneStopsOneVertex ==
    /\ [][DfsDiscovery =>
             /\ color_get(colors', Discovered.u) = "gray"
             /\ prune' = FALSE
             /\ FlagAtCheck =>
                   Discovered.ei > Len(view_out_edges(State, DfsGraph, view', Discovered.u))
             /\ ~FlagAtCheck => Discovered.ei = 1]_vars
    /\ [](kind = "dfs" =>
             /\ \A u \in DiscoveredWhilePruning :
                   /\ \A i \in 1..Len(examined) : examined[i][1] # u
                   /\ color_get(colors, u) \in {"gray", "black"}
                   /\ pc = "done" => color_get(colors, u) = "black"
             /\ Cardinality(DiscoveredWhilePruning)
                   <= vprunes + (IF prune_at_start THEN 1 ELSE 0)
             /\ pc = "done" =>
                   \A u \in DOMAIN colors \ DiscoveredWhilePruning :
                       \A p \in ViewEdges(view) :
                           p[1] = u =>
                               \E i \in 1..Len(examined) :
                                   examined[i][1] = u /\ examined[i][2] = p[2])

\* a search has returned in which the callback of a back or
\* forward-or-cross edge called prune, the next vertex discovered was not
\* expanded although it has out-edges, and it is Black
C36_Witness ==
    /\ kind = "dfs" /\ pc = "done"
    /\ ~prune_at_start
    /\ \E d \in Discoveries :
          /\ FlagAtDiscovery(d)
          /\ \A k \in 1..Len(pruned_at) : pruned_at[k] # d
          /\ \E p \in ViewEdges(view) : p[1] = examined[d][2]
          /\ colors[examined[d][2]] = "black"

\* a search has returned whose root was discovered while the flag was set
RootDiscoveredWhilePruning ==
    /\ kind = "dfs" /\ pc = "done"
    /\ prune_at_start
    /\ RootDescriptor \in DiscoveredWhilePruning
    /\ \E p \in ViewEdges(view) : p[1] = RootDescriptor

\* C37: a prune request never leaks out of the traversal in which it was
\* made: the prune flag is clear whenever a traversal returns and whenever a
\* depth-first search starts
C37_PruneNeverLeaks ==
    /\ (kind \in {"dfs", "bfs"} /\ pc = "done") => ~prune
    /\ kind = "dfs" => ~prune_at_start

\* what holds: a depth-first search that started with the flag clear and
\* whose block called prune in callbacks of tree edges only returns with the
\* flag clear
PruneOnTreeEdgeDoesNotLeak ==
    (kind = "dfs" /\ pc = "done" /\ ~prune_at_start
        /\ \A k \in 1..Len(pruned_at) : pruned_at[k] \in Discoveries)
            => ~prune

\* a breadth-first search that started with the flag clear has returned
\* with the flag set
BfsLeavesPruneSet ==
    /\ kind = "bfs" /\ pc = "done"
    /\ ~prune_at_start
    /\ prune

\* a depth-first search whose block never called prune has returned without
\* examining the out-edges of its root, stopped by the flag an earlier
\* traversal left set
LeakStopsLaterRoot ==
    /\ kind = "dfs" /\ pc = "done"
    /\ prune_at_start /\ vprunes = 0
    /\ rb_to_vertex(State, root, DfsGraph)[2]
    /\ \E p \in ViewEdges(view) : p[1] = RootDescriptor
    /\ examined = <<>>

\* ----------------------------------- claims, the colors of a depth-first search
\* the vertices the block of the running search pruned: those discovered
\* while the flag a callback of this search had set was pending
PrunedByThisSearch ==
    {examined[i][2] : i \in {d \in Discoveries : FlagAtDiscovery(d)}}

\* the colors the search leaves when the vertices of the set stopped are
\* the ones not expanded
FinalColors(stopped) ==
    LET reached == ViewReach(view, stopped, {}, {RootDescriptor})
    IN  \A v \in DfsHandles :
            color_get(colors, v) = IF v \in reached THEN "black" ELSE "white"

\* a vertex changes color from White to Gray and from Gray to Black only
DfsColorSteps ==
    [][(kind = "dfs" /\ pc = "run") =>
          \A v \in DfsHandles :
              \/ color_get(colors', v) = color_get(colors, v)
              \/ color_get(colors, v) = "white" /\ color_get(colors', v) = "gray"
              \/ color_get(colors, v) = "gray" /\ color_get(colors', v) = "black"]_vars

\* a depth-first search that runs returns
DfsTerminates == (kind = "dfs" /\ pc = "run") ~> (kind = "dfs" /\ pc = "done")

\* the turns the loop of depth_first_visit can still take: one for each edge
\* of the view not yet examined and one for each vertex not yet Black
DfsTurnsLeft ==
    (Cardinality(ViewEdges(view)) - Len(examined))
        + Cardinality({v \in DfsHandles : color_get(colors, v) # "black"})

\* every turn of the loop takes one of them
DfsTurnsDecrease ==
    [][(kind = "dfs" /\ pc = "run") =>
          (DfsTurnsLeft' < DfsTurnsLeft /\ DfsTurnsLeft' >= 0)]_vars

\* C38: every depth-first search terminates, cycles and self-loops included
\* (every turn of its loop takes one of the turns left);
\* a vertex changes color only from White to Gray and from Gray to Black;
\* on return every vertex reachable from the root through vertices that were
\* not pruned is Black, no vertex is Gray and every other vertex is White
C38_DfsTerminatesWithColors ==
    /\ DfsTurnsDecrease
    /\ DfsColorSteps
    /\ []((kind = "dfs" /\ pc = "done") => FinalColors(PrunedByThisSearch))

\* what holds: the colors on return, when the root that the flag left by an
\* earlier call stopped counts as pruned
DfsFinalColorsOfStopped ==
    (kind = "dfs" /\ pc = "done") => FinalColors(DiscoveredWhilePruning)

\* what holds: the colors on return of a search that started with the flag
\* clear
DfsFinalColorsFromClearFlag ==
    (kind = "dfs" /\ pc = "done" /\ ~prune_at_start) => FinalColors(PrunedByThisSearch)

\* what holds: termination and the color steps
DfsTerminatesColorSteps == DfsTurnsDecrease /\ DfsColorSteps

\* a search of a graph with a cycle and a self-loop has returned
DfsOfCyclesReturned ==
    /\ kind = "dfs" /\ pc = "done"
    /\ \E i, j \in 1..Len(examined) :
          /\ examined[i][1] = examined[i][2]
          /\ examined[j][1] # examined[j][2] /\ examined[j][3] = "gray"

\* ------------------------------------------ claims, breadth-first search
\* the number of edges of a shortest path of the view from a descriptor of
\* frontier (at distance d from the start) to w; -1 when there is none
RECURSIVE ViewDistanceFrom(_, _, _, _, _)
ViewDistanceFrom(vw, seen, frontier, d, w) ==
    IF w \in frontier THEN d
    ELSE IF frontier = {} THEN -1
    ELSE LET next == {p[2] : p \in {q \in ViewEdges(vw) : q[1] \in frontier}}
         IN  ViewDistanceFrom(vw, seen \cup frontier, next \ (seen \cup frontier), d + 1, w)

RootDistance(w) == ViewDistanceFrom(view, {}, {RootDescriptor}, 0, w)

\* the positions in "trace" of the callbacks of class what from the vertex
\* u to the vertex w
CallbacksOf(u, w, what) ==
    {i \in 1..Len(trace) :
        /\ trace[i][1] = vertices[DfsGraph][u]
        /\ trace[i][2] = vertices[DfsGraph][w]
        /\ trace[i][4] = what}

\* the positions of the tree-edge callbacks whose target is w
TreeCallbacksTo(w) == UNION {CallbacksOf(u, w, VISIT_TREE_EDGES) : u \in DfsHandles}

\* an each_bfs over the forward view with TREE in the mask has returned,
\* its root being a vertex of the graph
ForwardBfsReturned ==
    /\ kind = "bfs" /\ pc = "done" /\ view = "direct"
    /\ InMask(VISIT_TREE_EDGES, mode)
    /\ rb_to_vertex(State, root, DfsGraph)[2]

\* C39: in each_bfs from r over the forward view with TREE in the mask, every
\* vertex reachable from r other than r is the target of exactly one
\* tree-edge callback, whose source is one edge nearer to r than the target;
\* the tree-edge callbacks come in non-decreasing order of the distance of
\* their target; with BACK and FORWARD_OR_CROSS in the mask every other edge
\* with a reachable source is reported once, with the class NON_TREE
C39_BfsShortestPathTree ==
    ForwardBfsReturned =>
        LET reached == ViewReach(view, {}, {}, {RootDescriptor})
            tree    == {i \in 1..Len(trace) : trace[i][4] = VISIT_TREE_EDGES}
            target(i) == CHOOSE w \in DfsHandles : vertices[DfsGraph][w] = trace[i][2]
            source(i) == CHOOSE u \in DfsHandles : vertices[DfsGraph][u] = trace[i][1]
        IN  /\ \A w \in DfsHandles :
                  Cardinality(TreeCallbacksTo(w))
                      = IF w \in reached \ {RootDescriptor} THEN 1 ELSE 0
            /\ \A i \in tree : RootDistance(source(i)) = RootDistance(target(i)) - 1
            /\ \A i, j \in tree :
                  i < j => RootDistance(target(i)) <= RootDistance(target(j))
            /\ mode = VISIT_ALL_EDGES =>
                  /\ \A p \in ViewEdges(view) :
                        p[1] \in reached =>
                            Cardinality(CallbacksOf(p[1], p[2], VISIT_TREE_EDGES)
                                \cup CallbacksOf(p[1], p[2], VISIT_NON_TREE_EDGES)) = 1
                  /\ \A i \in 1..Len(trace) :
                        /\ trace[i][4] \in {VISIT_TREE_EDGES, VISIT_NON_TREE_EDGES}
                        /\ <<source(i), target(i)>> \in ViewEdges(view)
                        /\ source(i) \in reached

\* such a search for all classes has returned on a graph where a vertex next
\* to the root is also reached by a longer path, whose last edge is reported
\* as a non-tree edge
C39_Witness ==
    /\ ForwardBfsReturned
    /\ mode = VISIT_ALL_EDGES
    /\ \E u, w \in DfsHandles :
          /\ u # w
          /\ RootDistance(u) = 1 /\ RootDistance(w) = 1
          /\ CallbacksOf(u, w, VISIT_NON_TREE_EDGES) # {}
          /\ CallbacksOf(RootDescriptor, w, VISIT_TREE_EDGES) # {}

\* such a search has returned on a graph with a vertex two edges away from
\* the root
BfsOfTwoLevelsReturned ==
    /\ ForwardBfsReturned
    /\ \E w \in DfsHandles : RootDistance(w) = 2 /\ TreeCallbacksTo(w) # {}

\* --------------------------------- claims, undirected breadth-first search
\* the positions in "trace" of the callbacks from the vertex u to the vertex
\* w, and of those that carry the info i
ReportsOf(u, w) ==
    {k \in 1..Len(trace) :
        trace[k][1] = vertices[DfsGraph][u] /\ trace[k][2] = vertices[DfsGraph][w]}

ReportsWithInfo(u, w, i) == {k \in ReportsOf(u, w) : trace[k][3] = i}

\* the stored edges between u and w, in either direction
StoredBetween(u, w) ==
    {e \in edges[DfsGraph] :
        (e.source = u /\ e.target = w) \/ (e.source = w /\ e.target = u)}

\* an undirected_each_bfs for all classes has returned, its root being a
\* vertex of the graph
UndirectedBfsReturned ==
    /\ kind = "bfs" /\ pc = "done" /\ view = "undirected"
    /\ mode = VISIT_ALL_EDGES
    /\ rb_to_vertex(State, root, DfsGraph)[2]

\* C40: undirected_each_bfs from r with the mask ALL reports every stored
\* edge of the undirected component of r exactly twice, once from each of its
\* endpoints (a self-loop twice from its endpoint), the source reported being
\* the endpoint that is expanded; at most one of the two reports is a tree
\* edge, and no edge outside the component is reported
C40_UndirectedBfsReportsEdgesTwice ==
    UndirectedBfsReturned =>
        LET component == ViewReach("undirected", {}, {}, {RootDescriptor})
        IN  /\ \A u, w \in component :
                  /\ Cardinality(ReportsOf(u, w))
                        = IF u = w THEN 2 * Cardinality(StoredBetween(u, u))
                          ELSE Cardinality(StoredBetween(u, w))
                  /\ \A e \in StoredBetween(u, w) :
                        /\ ReportsWithInfo(u, w, e.info) # {}
                        /\ ReportsWithInfo(w, u, e.info) # {}
                  /\ Cardinality({k \in ReportsOf(u, w) \cup ReportsOf(w, u) :
                                     trace[k][4] = VISIT_TREE_EDGES}) <= 1
                  /\ u = w => \A k \in ReportsOf(u, u) : trace[k][4] = VISIT_NON_TREE_EDGES
            /\ \A k \in 1..Len(trace) :
                  /\ \E u, w \in component :
                        k \in ReportsOf(u, w) /\ StoredBetween(u, w) # {}
                  /\ trace[k][4] \in {VISIT_TREE_EDGES, VISIT_NON_TREE_EDGES}
            /\ Len(trace) = Len(examined)
            /\ \A k \in 1..Len(examined) :
                  /\ trace[k][1] = vertices[DfsGraph][examined[k][1]]
                  /\ \A j \in k..Len(examined) :
                        examined[j][1] = examined[k][1]
                            => \A i \in k..j : examined[i][1] = examined[k][1]

\* such a search has returned on a graph where the root has a self-loop and
\* is linked with another vertex in both directions
C40_Witness ==
    /\ UndirectedBfsReturned
    /\ StoredBetween(RootDescriptor, RootDescriptor) # {}
    /\ \E w \in DfsHandles \ {RootDescriptor} :
          /\ Cardinality(StoredBetween(RootDescriptor, w)) = 2
          /\ Cardinality(ReportsOf(RootDescriptor, w)) = 2
          /\ Cardinality(ReportsOf(w, RootDescriptor)) = 2

\* such a search has returned on a graph that has an edge outside the
\* component of the root, the root being reached only against the direction
\* of a stored edge
UndirectedBfsLeavesOtherComponent ==
    /\ UndirectedBfsReturned
    /\ \E e \in edges[DfsGraph] :
          e.source \notin ViewReach("undirected", {}, {}, {RootDescriptor})
    /\ \E e \in edges[DfsGraph] : e.target = RootDescriptor /\ e.source # RootDescriptor
    /\ \A e \in edges[DfsGraph] : e.source # RootDescriptor

====
